---- MODULE Spec2Model ----
(***************************************************************************)
(* Model of the time-stepping framework (numerics/timestepping/stepper.py) *)
(* and of the error checks of the Euler numerical fluxes and boundary      *)
(* conditions (physics/euler/functions.py).                                *)
(*                                                                         *)
(* A take_time_step is executed one statement group at a time: the body of *)
(* each scheme is written as a sequence of instructions (FEProg, RK4Prog,  *)
(* ...), a frame holds the position in it, and a call of a split           *)
(* sub-scheme pushes a frame.  Every call of solver.get_residual,          *)
(* mult_inv_mass_matrix, apply_limiter and every state update is appended  *)
(* to the log of the current step together with what it could observe.     *)
(***************************************************************************)
EXTENDS Integers, Sequences, FiniteSets, TLC

(* ------------------------------ bounds --------------------------------- *)
\* number of take_time_step calls the driver makes
MaxSteps == 2
\* values of stepper.dt (time units); multiples of 2000 keep dt/2 and the
\* stage times integral
DtChoices == {2000, 4000}
\* shapes [num_elems, num_basis, num_state_vars] of the state tensor
Shapes == {<<1, 1, 3>>, <<2, 3, 4>>}

(* ----------------------------- instructions ---------------------------- *)
\* one uniform record per statement group; a, b are names, n a number
I(op, a, b, n) == [op |-> op, a |-> a, b |-> b, n |-> n]

TopSchemes == {"FE", "RK4", "LSRK4", "SSPRK3", "ADER", "Strang", "Simpler"}
ExplicitSchemes == {"FE", "RK4", "LSRK4", "SSPRK3", "ADER"}
SplitSchemes == {"Strang", "Simpler"}

\* FE with the update written as physics.U = U + dU (a new array)
FEProgRebind ==
  << I("res", "U", "", 0),
     I("mult", "", "", 1),
     I("upd", "U", "new", 0),
     I("lim", "U", "", 0),
     I("ret", "R", "", 0) >>

\* FE.take_time_step
FEProg ==
  << I("res", "U", "", 0),          \* R = solver.get_residual(U, R)
     I("mult", "", "", 1),          \* dU = mult_inv_mass_matrix(.., self.dt, R)
     I("upd", "U", "inplace", 0),   \* U += dU
     I("lim", "U", "", 0),          \* solver.apply_limiter(U)
     I("ret", "R", "", 0) >>

\* RK4 without the limiter call of the second stage
RK4ProgNoStageLimiter ==
  << I("res", "U", "", 0),
     I("mult", "", "", 1),
     I("upd", "Utemp", "new", 0),
     I("lim", "Utemp", "", 0),
     I("timeadd", "", "", 2),
     I("res", "Utemp", "", 0),
     I("mult", "", "", 1),
     I("upd", "Utemp", "new", 0),
     I("res", "Utemp", "", 0),
     I("mult", "", "", 1),
     I("upd", "Utemp", "new", 0),
     I("lim", "Utemp", "", 0),
     I("timeadd", "", "", 2),
     I("res", "Utemp", "", 0),
     I("mult", "", "", 1),
     I("upd", "U", "inplace", 0),
     I("lim", "U", "", 0),
     I("ret", "R", "", 0) >>

\* RK4 advancing solver.time by dt/2 once, before the fourth stage only
RK4ProgOneTimeAdd ==
  << I("res", "U", "", 0),
     I("mult", "", "", 1),
     I("upd", "Utemp", "new", 0),
     I("lim", "Utemp", "", 0),
     I("res", "Utemp", "", 0),
     I("mult", "", "", 1),
     I("upd", "Utemp", "new", 0),
     I("lim", "Utemp", "", 0),
     I("res", "Utemp", "", 0),
     I("mult", "", "", 1),
     I("upd", "Utemp", "new", 0),
     I("lim", "Utemp", "", 0),
     I("timeadd", "", "", 2),
     I("res", "Utemp", "", 0),
     I("mult", "", "", 1),
     I("upd", "U", "inplace", 0),
     I("lim", "U", "", 0),
     I("ret", "R", "", 0) >>

\* RK4 with the first stage state written into physics.U (U += 0.5*dU1)
RK4ProgStageInPlace ==
  << I("res", "U", "", 0),
     I("mult", "", "", 1),
     I("upd", "U", "inplace", 0),
     I("lim", "U", "", 0),
     I("timeadd", "", "", 2),
     I("res", "U", "", 0),
     I("mult", "", "", 1),
     I("upd", "Utemp", "new", 0),
     I("lim", "Utemp", "", 0),
     I("res", "Utemp", "", 0),
     I("mult", "", "", 1),
     I("upd", "Utemp", "new", 0),
     I("lim", "Utemp", "", 0),
     I("timeadd", "", "", 2),
     I("res", "Utemp", "", 0),
     I("mult", "", "", 1),
     I("upd", "U", "inplace", 0),
     I("lim", "U", "", 0),
     I("ret", "R", "", 0) >>

\* RK4.take_time_step
RK4Prog ==
  << I("res", "U", "", 0),
     I("mult", "", "", 1),
     I("upd", "Utemp", "new", 0),   \* Utemp = U + 0.5*dU1
     I("lim", "Utemp", "", 0),
     I("timeadd", "", "", 2),       \* solver.time += self.dt/2.
     I("res", "Utemp", "", 0),
     I("mult", "", "", 1),
     I("upd", "Utemp", "new", 0),   \* Utemp = U + 0.5*dU2
     I("lim", "Utemp", "", 0),
     I("res", "Utemp", "", 0),
     I("mult", "", "", 1),
     I("upd", "Utemp", "new", 0),   \* Utemp = U + dU3
     I("lim", "Utemp", "", 0),
     I("timeadd", "", "", 2),       \* solver.time += self.dt/2.
     I("res", "Utemp", "", 0),
     I("mult", "", "", 1),
     I("upd", "U", "inplace", 0),   \* U += dU
     I("lim", "U", "", 0),
     I("ret", "R", "", 0) >>

\* LSRK4.__init__: rk4c, in thousandths (rounded)
rk4c == << 0, 150, 370, 622, 958 >>
\* SSPRK3.take_time_step sets solver.time = Time + dt in every stage
ssprk3c == << 1000, 1000, 1000, 1000, 1000 >>
\* LSRK4.__init__ / SSPRK3.__init__: self.nstages
nstages == 5

\* a stage that limits the state before updating it
LowStorageStageLimitsFirst(c) ==
  << I("settime", "", "", c),
     I("res", "U", "", 0),
     I("mult", "", "", 1),
     I("upd", "dU", "inplace", 0),
     I("lim", "U", "", 0),
     I("upd", "U", "inplace", 0) >>

\* one pass of the stage loop of LSRK4 / SSPRK3
LowStorageStage(c) ==
  << I("settime", "", "", c),       \* solver.time = Time + c*dt
     I("res", "U", "", 0),
     I("mult", "", "", 1),
     I("upd", "dU", "inplace", 0),  \* dU *= a[istage]; dU += dUtemp
     I("upd", "U", "inplace", 0),   \* U += b[istage]*dU
     I("lim", "U", "", 0) >>

RECURSIVE StageLoop(_, _)
StageLoop(c, istage) ==
  IF istage > nstages THEN << >>
  ELSE LowStorageStage(c[istage]) \o StageLoop(c, istage + 1)

\* LSRK4.take_time_step
LSRK4Prog ==
  << I("savetime", "", "", 0) >> \o StageLoop(rk4c, 1)
     \o << I("ret", "R", "", 0) >>

\* SSPRK3.take_time_step
SSPRK3Prog ==
  << I("savetime", "", "", 0) >> \o StageLoop(ssprk3c, 1)
     \o << I("ret", "R", "", 0) >>

\* ADER.take_time_step
ADERProg ==
  << I("pred", "Up", "", 0),        \* Up = solver.calculate_predictor_step(..)
     I("res", "Up", "", 0),
     I("mult", "", "", 2),          \* mult_inv_mass_matrix(.., self.dt/2., R)
     I("upd", "U", "inplace", 0),   \* W += dU
     I("lim", "U", "", 0),
     I("ret", "R", "", 0) >>

\* ode.ODESolvers.BDF1 / Trapezoidal take_time_step (numerics/timestepping/
\* ode.py): one residual evaluation, the implicit update of U, the limiter
ImplicitProg ==
  << I("res", "U", "", 0),
     I("mult", "", "", 1),
     I("upd", "U", "inplace", 0),
     I("lim", "U", "", 0),
     I("ret", "R", "", 0) >>

\* Strang returning the residual of the implicit step (return R2)
StrangProgReturnsR2 ==
  << I("setdt", "", "", 0),
     I("flag", "SourceSwitch", "F", 0),
     I("call", "explicit", "R1", 1),
     I("flag", "SourceSwitch", "T", 0),
     I("flag", "ConvFluxSwitch", "F", 0),
     I("call", "implicit", "R2", 2),
     I("flag", "SourceSwitch", "F", 0),
     I("flag", "ConvFluxSwitch", "T", 0),
     I("call", "explicit", "R3", 3),
     I("ret", "R2", "", 0) >>

\* Strang putting the source term back on before it returns
StrangProgRestoresSource ==
  << I("setdt", "", "", 0),
     I("flag", "SourceSwitch", "F", 0),
     I("call", "explicit", "R1", 1),
     I("flag", "SourceSwitch", "T", 0),
     I("flag", "ConvFluxSwitch", "F", 0),
     I("call", "implicit", "R2", 2),
     I("flag", "SourceSwitch", "F", 0),
     I("flag", "ConvFluxSwitch", "T", 0),
     I("call", "explicit", "R3", 3),
     I("flag", "SourceSwitch", "T", 0),
     I("ret", "R3", "", 0) >>

\* Strang.take_time_step
StrangProg ==
  << I("setdt", "", "", 0),                \* explicit.dt = dt/2; implicit.dt = dt
     I("flag", "SourceSwitch", "F", 0),
     I("call", "explicit", "R1", 1),
     I("flag", "SourceSwitch", "T", 0),
     I("flag", "ConvFluxSwitch", "F", 0),
     I("call", "implicit", "R2", 2),
     I("flag", "SourceSwitch", "F", 0),
     I("flag", "ConvFluxSwitch", "T", 0),
     I("call", "explicit", "R3", 3),
     I("ret", "R3", "", 0) >>

\* Simpler with the source switched on for the balance residual
SimplerProgSourceOn ==
  << I("setdt", "", "", 0),
     I("flag", "SourceSwitch", "T", 0),
     I("setbc", "None", "", 0),
     I("res", "U", "", 0),
     I("setbc", "negated", "", 0),
     I("flag", "SourceSwitch", "T", 0),
     I("flag", "ConvFluxSwitch", "F", 0),
     I("call", "implicit", "R2", 2),
     I("flag", "SourceSwitch", "F", 0),
     I("flag", "ConvFluxSwitch", "T", 0),
     I("setbc", "const", "", 0),
     I("call", "explicit", "R3", 3),
     I("ret", "R3", "", 0) >>

\* Simpler without the reset of self.balance_const before the balance
\* residual
SimplerProgStaleConst ==
  << I("setdt", "", "", 0),
     I("flag", "SourceSwitch", "F", 0),
     I("res", "U", "", 0),
     I("setbc", "negated", "", 0),
     I("flag", "SourceSwitch", "T", 0),
     I("flag", "ConvFluxSwitch", "F", 0),
     I("call", "implicit", "R2", 2),
     I("flag", "SourceSwitch", "F", 0),
     I("flag", "ConvFluxSwitch", "T", 0),
     I("setbc", "const", "", 0),
     I("call", "explicit", "R3", 3),
     I("ret", "R3", "", 0) >>

\* Simpler.take_time_step
SimplerProg ==
  << I("setdt", "", "", 0),
     I("flag", "SourceSwitch", "F", 0),
     I("setbc", "None", "", 0),            \* self.balance_const = None
     I("res", "U", "", 0),                 \* balance_const = -1.*get_residual(U, R)
     I("setbc", "negated", "", 0),         \* self.balance_const = -1.*balance_const
     I("flag", "SourceSwitch", "T", 0),
     I("flag", "ConvFluxSwitch", "F", 0),
     I("call", "implicit", "R2", 2),
     I("flag", "SourceSwitch", "F", 0),
     I("flag", "ConvFluxSwitch", "T", 0),
     I("setbc", "const", "", 0),           \* self.balance_const = balance_const
     I("call", "explicit", "R3", 3),
     I("ret", "R3", "", 0) >>

Prog(name) ==
  CASE name = "FE" -> FEProg
    [] name = "RK4" -> RK4Prog
    [] name = "LSRK4" -> LSRK4Prog
    [] name = "SSPRK3" -> SSPRK3Prog
    [] name = "ADER" -> ADERProg
    [] name = "Strang" -> StrangProg
    [] name = "Simpler" -> SimplerProg
    [] name = "BDF1" -> ImplicitProg
    [] name = "Trapezoidal" -> ImplicitProg


(* --------------------- setup: Strang.set_split_schemes ----------------- *)
\* members of the enum general.ODESolverType (general.py)
ODESolverTypeMembers == {"BDF1", "Trapezoidal", "LSODA"}
\* names a parameter file may give as the implicit solver
ODENames == ODESolverTypeMembers \cup {"RK4", "Foo"}

\* the if / elif / else chain of set_split_schemes: what is bound to
\* self.implicit ("unset": no assignment) and what is raised.
\* ODESolverType[implicit] is an Enum lookup by name: KeyError for a name
\* that is not a member, before any branch is taken.
SplitSchemeFor(implicit) ==
  IF implicit \notin ODESolverTypeMembers
    THEN [implicit |-> "unset", raised |-> "KeyError"]
  ELSE IF implicit = "BDF1"
    THEN [implicit |-> "BDF1", raised |-> "none"]
  ELSE IF implicit = "Trapezoidal"
    THEN [implicit |-> "Trapezoidal", raised |-> "none"]
  ELSE [implicit |-> "unset", raised |-> "NotImplementedError"]

(* -------------------------------- state -------------------------------- *)
VARIABLES
  scheme,        \* class of the stepper object: a member of TopSchemes
  explicit,      \* self.explicit: name of the explicit sub-scheme or "unset"
  implicit,      \* self.implicit: name of the ODE solver or "unset"
  implicitArg,   \* the name last passed to set_split_schemes ("" before)
  setupRaised,   \* exception raised by set_split_schemes, "none" if none
  status,        \* "setup", "idle", "running", "returned", "raised"
  frames,        \* call stack of take_time_step frames
  params,        \* solver.params
  time,          \* solver.time
  dt,            \* the dt attribute of the stepper objects
  physU,         \* the array bound to physics.U: [id, shape, ver]
  selfR,         \* the array bound to self.R:    [id, shape]
  Utemp,         \* the array bound to the local Utemp of RK4 (id 0: none)
  balance_const, \* self.balance_const: [kind, step, res], see BalanceConst
  log,           \* calls made during the current take_time_step
  entry,         \* values on entry to the current take_time_step
  retval,        \* value returned by the last take_time_step
  nsteps         \* number of take_time_step calls so far

stepperVars == << scheme, explicit, implicit, implicitArg, setupRaised, status,
                  frames, params, time, dt, physU, selfR, Utemp,
                  balance_const, log, entry, retval, nsteps >>

NoVal == [obj |-> "none", ev |-> 0]
NoRegs == [r \in {"R", "R1", "R2", "R3"} |-> NoVal]
\* the value None of self.balance_const
NoBalanceConst == [kind |-> "None", step |-> 0, res |-> 0]
NoEntry == [time |-> 0, ver |-> 0, S |-> FALSE, C |-> FALSE, Uid |-> 0,
            bc |-> NoBalanceConst]

\* local variables of one take_time_step call
Frame(prog, obj, sub) ==
  [prog |-> prog, self |-> obj, sub |-> sub, pc |-> 1, regs |-> NoRegs,
   Time |-> 0]

\* StepperBase.__init__: self.R = np.zeros_like(U); dt = 0.;
\* balance_const = None
StepperInit ==
  /\ scheme \in TopSchemes
  /\ explicit = "unset"
  /\ implicit = "unset"
  /\ implicitArg = ""
  /\ setupRaised = "none"
  /\ status = "setup"
  /\ frames = << >>
  /\ params \in [SourceSwitch : BOOLEAN, ConvFluxSwitch : BOOLEAN,
                 Other : {"asgiven"}]
  /\ time = 0
  /\ dt = [self |-> 0, explicit |-> 0, implicit |-> 0]
  /\ \E sh \in Shapes :
       /\ physU = [id |-> 1, shape |-> sh, ver |-> 0]
       /\ selfR = [id |-> 2, shape |-> sh]
  /\ Utemp = [id |-> 0, shape |-> << >>]
  /\ balance_const = NoBalanceConst
  /\ log = << >>
  /\ entry = NoEntry
  /\ retval = NoVal
  /\ nsteps = 0

(* -------------------------------- setup -------------------------------- *)
\* stepper_tools.set_stepper + Strang.set_split_schemes + the time step
\* chosen by get_time_step: afterwards the stepper is ready ("idle"), or
\* set_split_schemes has raised and the run never starts
Setup(e, i, d) ==
  /\ status = "setup"
  /\ dt' = [dt EXCEPT !.self = d]
  /\ IF scheme \in SplitSchemes
       THEN /\ explicit' = e
            /\ implicit' = SplitSchemeFor(i).implicit
            /\ implicitArg' = i
            /\ setupRaised' = SplitSchemeFor(i).raised
            /\ status' = IF SplitSchemeFor(i).raised = "none"
                           THEN "idle" ELSE "setupfailed"
       ELSE /\ e = "FE" /\ i = "BDF1"
            /\ UNCHANGED << explicit, implicit, implicitArg, setupRaised >>
            /\ status' = "idle"
  /\ UNCHANGED << scheme, frames, params, time, physU, selfR, Utemp,
                  balance_const, log, entry, retval, nsteps >>


(* ---------------------------- take_time_step --------------------------- *)
Top == frames[Len(frames)]
Cur == Prog(Top.prog)[Top.pc]
Running == status = "running" /\ frames # << >>
At(op) == Running /\ Cur.op = op

\* the frames with the top one replaced by f
WithTop(f) == [frames EXCEPT ![Len(frames)] = f]
Step(f) == [f EXCEPT !.pc = @ + 1]

\* what a call made from the current statement can observe
Event(op, on, n) ==
  [op |-> op, on |-> on, n |-> n, prog |-> Top.prog, self |-> Top.self,
   sub |-> Top.sub, S |-> params.SourceSwitch, C |-> params.ConvFluxSwitch,
   time |-> time, ver |-> physU.ver, Uid |-> physU.id, bc |-> balance_const,
   R |-> Top.regs["R"].ev]

\* an id no live array has (a new numpy array)
FreshId == CHOOSE n \in 1..4 : n \notin {physU.id, selfR.id, Utemp.id}

\* stepper.take_time_step(solver) called by the driver
Enter ==
  /\ status \in {"idle", "returned"}
  /\ nsteps < MaxSteps
  /\ status' = "running"
  /\ frames' = << Frame(scheme, "self", 0) >>
  /\ nsteps' = nsteps + 1
  /\ log' = << >>
  /\ entry' = [time |-> time, ver |-> physU.ver, S |-> params.SourceSwitch,
               C |-> params.ConvFluxSwitch, Uid |-> physU.id,
               bc |-> balance_const]
  /\ UNCHANGED << scheme, explicit, implicit, implicitArg, setupRaised,
                  params, time, dt, physU, selfR, Utemp, balance_const,
                  retval >>

\* R = solver.get_residual(X, R) returns
GetResidual ==
  /\ At("res")
  /\ log' = Append(log, Event("res", Cur.a, 0))
  /\ frames' = WithTop(Step([Top EXCEPT
                 !.regs["R"] = [obj |-> Top.self, ev |-> Len(log) + 1]]))
  /\ UNCHANGED << scheme, explicit, implicit, implicitArg, setupRaised,
                  status, params, time, dt, physU, selfR, Utemp,
                  balance_const, entry, retval, nsteps >>

\* dU = solver_tools.mult_inv_mass_matrix(mesh, solver, dt, R)
MultInvMass ==
  /\ At("mult")
  /\ log' = Append(log, Event("mult", "R", dt[Top.self] \div Cur.n))
  /\ frames' = WithTop(Step(Top))
  /\ UNCHANGED << scheme, explicit, implicit, implicitArg, setupRaised,
                  status, params, time, dt, physU, selfR, Utemp,
                  balance_const, entry, retval, nsteps >>

\* a state update: U += ... (in place), Utemp = U + ... (a new array),
\* dU *= a; dU += dUtemp (the stage increment of the low-storage schemes)
Update ==
  /\ At("upd")
  /\ log' = Append(log, Event("upd", Cur.a, 0))
  /\ frames' = WithTop(Step(Top))
  /\ physU' = IF Cur.a = "U"
                THEN IF Cur.b = "inplace"
                       THEN [physU EXCEPT !.ver = @ + 1]
                       ELSE [physU EXCEPT !.ver = @ + 1, !.id = FreshId]
                ELSE physU
  /\ Utemp' = IF Cur.a = "Utemp"
                THEN [id |-> FreshId, shape |-> physU.shape]
                ELSE Utemp
  /\ UNCHANGED << scheme, explicit, implicit, implicitArg, setupRaised,
                  status, params, time, dt, selfR, balance_const, entry,
                  retval, nsteps >>

\* solver.apply_limiter(X) returns
ApplyLimiter ==
  /\ At("lim")
  /\ log' = Append(log, Event("lim", Cur.a, 0))
  /\ frames' = WithTop(Step(Top))
  /\ UNCHANGED << scheme, explicit, implicit, implicitArg, setupRaised,
                  status, params, time, dt, physU, selfR, Utemp,
                  balance_const, entry, retval, nsteps >>

\* Up = solver.calculate_predictor_step(self.dt, W, Up)
Predictor ==
  /\ At("pred")
  /\ log' = Append(log, Event("pred", Cur.a, dt[Top.self]))
  /\ frames' = WithTop(Step(Top))
  /\ UNCHANGED << scheme, explicit, implicit, implicitArg, setupRaised,
                  status, params, time, dt, physU, selfR, Utemp,
                  balance_const, entry, retval, nsteps >>

\* Time = solver.time / solver.time += self.dt/2. /
\* solver.time = Time + c[istage]*dt
SetTime ==
  /\ Running
  /\ Cur.op \in {"savetime", "timeadd", "settime"}
  /\ frames' = WithTop(Step(IF Cur.op = "savetime"
                              THEN [Top EXCEPT !.Time = time] ELSE Top))
  /\ time' = CASE Cur.op = "savetime" -> time
               [] Cur.op = "timeadd" -> time + dt[Top.self] \div Cur.n
               [] Cur.op = "settime" ->
                    Top.Time + (Cur.n * dt[Top.self]) \div 1000
  /\ UNCHANGED << scheme, explicit, implicit, implicitArg, setupRaised,
                  status, params, dt, physU, selfR, Utemp,
                  balance_const, log, entry, retval, nsteps >>

\* solver.params[key] = value
SetFlag ==
  /\ At("flag")
  /\ params' = [params EXCEPT ![Cur.a] = (Cur.b = "T")]
  /\ frames' = WithTop(Step(Top))
  /\ UNCHANGED << scheme, explicit, implicit, implicitArg, setupRaised,
                  status, time, dt, physU, selfR, Utemp,
                  balance_const, log, entry, retval, nsteps >>

\* explicit.dt = self.dt/2.; implicit.dt = self.dt
SetSubDt ==
  /\ At("setdt")
  /\ dt' = [dt EXCEPT !.explicit = dt.self \div 2, !.implicit = dt.self]
  /\ frames' = WithTop(Step(Top))
  /\ UNCHANGED << scheme, explicit, implicit, implicitArg, setupRaised,
                  status, params, time, physU, selfR, Utemp,
                  balance_const, log, entry, retval, nsteps >>

\* the value bound to self.balance_const by a statement of Simpler: None,
\* or the local balance_const = -1.*get_residual(U, R) ("const") or its
\* negation -1.*balance_const ("negated"); the local was computed from the
\* residual held by R in this frame: evaluation number res of step number
\* step
BalanceConst(kind) ==
  IF kind = "None"
    THEN NoBalanceConst
    ELSE [kind |-> kind, step |-> nsteps, res |-> Top.regs["R"].ev]

\* self.balance_const = None / -1.*balance_const / balance_const
SetBalanceConst ==
  /\ At("setbc")
  /\ balance_const' = BalanceConst(Cur.a)
  /\ frames' = WithTop(Step(Top))
  /\ UNCHANGED << scheme, explicit, implicit, implicitArg, setupRaised,
                  status, params, time, dt, physU, selfR, Utemp,
                  log, entry, retval, nsteps >>

\* Rk = explicit.take_time_step(solver) / implicit.take_time_step(solver):
\* the call; the sub-scheme runs in a new frame
Call ==
  /\ At("call")
  /\ log' = Append(log, [Event("call", Cur.a, dt[Cur.a]) EXCEPT !.sub = Cur.n])
  /\ frames' = Append(frames,
       Frame(IF Cur.a = "explicit" THEN explicit ELSE implicit,
             Cur.a, Cur.n))
  /\ UNCHANGED << scheme, explicit, implicit, implicitArg, setupRaised,
                  status, params, time, dt, physU, selfR, Utemp,
                  balance_const, entry, retval, nsteps >>

\* return R: to the calling scheme, which stores it in the register named
\* by its call statement, or to the driver
Return ==
  /\ At("ret")
  /\ log' = Append(log, Event("ret", Cur.a, 0))
  /\ IF Len(frames) = 1
       THEN /\ frames' = << >>
            /\ status' = "returned"
            /\ retval' = Top.regs[Cur.a]
       ELSE LET caller == frames[Len(frames) - 1]
                dst == Prog(caller.prog)[caller.pc].b
            IN /\ frames' = [SubSeq(frames, 1, Len(frames) - 1) EXCEPT
                    ![Len(frames) - 1] =
                       Step([caller EXCEPT !.regs[dst] = Top.regs[Cur.a]])]
               /\ UNCHANGED << status, retval >>
  /\ UNCHANGED << scheme, explicit, implicit, implicitArg, setupRaised,
                  params, time, dt, physU, selfR, Utemp,
                  balance_const, entry, nsteps >>

\* an except clause in the calling scheme: only the frame of the sub-scheme
\* is unwound and the caller goes on with its next statement
UnwindCaught(fs) ==
  IF Len(fs) > 1
    THEN [SubSeq(fs, 1, Len(fs) - 1) EXCEPT
            ![Len(fs) - 1] = [@ EXCEPT !.pc = @ + 1]]
    ELSE << >>

\* the frames left after an exception raised in the top frame: there is no
\* try / except in stepper.py, every frame is unwound
Unwind(fs) == << >>

\* solver.get_residual or solver.apply_limiter raises NotPhysicalError
RaiseNotPhysical ==
  /\ Running
  /\ Cur.op \in {"res", "lim"}
  /\ log' = Append(log, Event("raise", Cur.op, 0))
  /\ frames' = Unwind(frames)
  /\ status' = IF Unwind(frames) = << >> THEN "raised" ELSE status
  /\ UNCHANGED << scheme, explicit, implicit, implicitArg, setupRaised,
                  params, time, dt, physU, selfR, Utemp,
                  balance_const, entry, retval, nsteps >>

StepperNext ==
  \/ \E e \in ExplicitSchemes, i \in ODENames, d \in DtChoices : Setup(e, i, d)
  \/ Enter
  \/ GetResidual
  \/ MultInvMass
  \/ Update
  \/ ApplyLimiter
  \/ Predictor
  \/ SetTime
  \/ SetFlag
  \/ SetSubDt
  \/ SetBalanceConst
  \/ Call
  \/ Return
  \/ RaiseNotPhysical

(* ------------------- floating-point values of the physics -------------- *)
\* a float is a number or NaN; numbers are kept as (scaled) integers
Num(v) == [nan |-> FALSE, v |-> v]
NaN == [nan |-> TRUE, v |-> 0]
\* arithmetic propagates NaN
Add(x, y) == IF x.nan \/ y.nan THEN NaN ELSE Num(x.v + y.v)
Sub(x, y) == IF x.nan \/ y.nan THEN NaN ELSE Num(x.v - y.v)
Mul(x, y) == IF x.nan \/ y.nan THEN NaN ELSE Num(x.v * y.v)
\* comparisons with NaN are False
Le0(x) == ~x.nan /\ x.v <= 0
Lt0(x) == ~x.nan /\ x.v < 0
\* np.sqrt: NaN for NaN and for negative numbers; the numbers used as
\* densities are perfect squares
Sqrt(x) ==
  IF x.nan \/ x.v < 0 THEN NaN
  ELSE Num(CHOOSE r \in 0..x.v : r * r = x.v)
RECURSIVE SumSq(_)
\* np.sum(v*v, axis=2)
SumSq(v) == IF v = << >> THEN Num(0)
            ELSE Add(Mul(Head(v), Head(v)), SumSq(Tail(v)))

\* number of quadrature points in a batch
MaxPts == 2
Batches(S) == UNION { [1..n -> S] : n \in 1..MaxPts }

VARIABLE
  lastCall       \* the last call of a physics function: name, inputs, outcome

VARIABLES
  transport,     \* the transport object of the physics
  thermo,        \* the thermodynamic state object handed to the transport
  lastGet,       \* the last get_solution call: what it saw, did and returned
  nops           \* number of transport / thermo operations so far
transportVars == << transport, thermo, lastGet, nops >>

VARIABLES
  quadEnv,       \* the mesh, basis and equation set of a quadrature user
  quadData       \* the QuadData object that user holds
quadVars == << quadEnv, quadData >>

vars == << stepperVars, lastCall, transportVars, quadVars >>

NoCall == [fn |-> "none", args |-> << >>, out |-> << >>]

(* ---------------------- Roe1D / Roe2D compute_flux --------------------- *)
NotPhysicalError(msg, trace) ==
  [raised |-> "NotPhysicalError", msg |-> msg, flux |-> << >>,
   trace |-> trace]

\* Roe1D.roe_average_state, without the division by
\* denom = rhoL_sqrt + rhoR_sqrt: d, d*velRoe, d*HRoe
roe_average_state(pt) ==
  LET rhoL_sqrt == Sqrt(pt.rhoL)
      rhoR_sqrt == Sqrt(pt.rhoR)
  IN [d |-> Add(rhoL_sqrt, rhoR_sqrt),
      vel |-> [k \in DOMAIN pt.velL |->
                 Add(Mul(rhoL_sqrt, pt.velL[k]), Mul(rhoR_sqrt, pt.velR[k]))],
      H |-> Add(Mul(rhoL_sqrt, pt.HL), Mul(rhoR_sqrt, pt.HR))]

\* c2 = (gamma - 1.)*(HRoe - 0.5*sum(velRoe*velRoe)) multiplied by
\* 2*d*d/(gamma - 1.), which is positive: same sign as c2, NaN when c2 is
C2(pt) ==
  LET a == roe_average_state(pt)
  IN Sub(Mul(Num(2), Mul(a.d, a.H)), SumSq(a.vel))

\* the guard np.any(c2 < 0.) a strict comparison would give
AnyC2Negative(batch) == \E k \in DOMAIN batch : Lt0(C2(batch[k]))

\* np.any(rhoL <= 0.), np.any(rhoR <= 0.), np.any(c2 <= 0.)
AnyRhoLNotPositive(batch) == \E k \in DOMAIN batch : Le0(batch[k].rhoL)
AnyRhoRNotPositive(batch) == \E k \in DOMAIN batch : Le0(batch[k].rhoR)
AnyC2NotPositive(batch) == \E k \in DOMAIN batch : Le0(C2(batch[k]))

\* Roe1D.compute_flux (inherited by Roe2D): the checks, the square roots
\* and the outcome.  The densities, velocities and total enthalpies of the
\* two sides are the values the thermodynamic model gave for UqL and UqR.
\* trace lists the checks and square roots in the order they are executed.
RoeComputeFlux(batch) ==
  IF AnyRhoLNotPositive(batch)
    THEN NotPhysicalError("rhoL is negative", << "check rhoL" >>)
  ELSE IF AnyRhoRNotPositive(batch)
    THEN NotPhysicalError("rhoR is negative", << "check rhoL", "check rhoR" >>)
  ELSE IF AnyC2NotPositive(batch)
    THEN NotPhysicalError(
           IF \E k \in DOMAIN batch : C2(batch[k]).nan
             THEN "Speed of sound is NaN" ELSE "Speed of sound is negative",
           << "check rhoL", "check rhoR", "sqrt rho", "check c2" >>)
  ELSE [raised |-> "none", msg |-> "",
        \* c = np.sqrt(c2) enters every component of the flux
        flux |-> [k \in DOMAIN batch |->
                    IF C2(batch[k]).nan THEN "nan" ELSE "number"],
        trace |-> << "check rhoL", "check rhoR", "sqrt rho", "check c2",
                     "sqrt c2" >>]

\* the left and right values at one point of a face, 1D and 2D
RoePoints1D ==
  [rhoL : {Num(0), Num(1), NaN}, rhoR : {Num(-1), Num(1), Num(4)},
   velL : {<< Num(0) >>, << Num(2) >>, << Num(3) >>}, velR : {<< Num(0) >>},
   HL : {Num(0), NaN}, HR : {Num(1)}]
RoePoints2D ==
  [rhoL : {Num(0), Num(1), NaN}, rhoR : {Num(-1), Num(1), Num(4)},
   velL : {<< Num(0), Num(0) >>, << Num(2), Num(0) >>, << Num(2), Num(1) >>},
   velR : {<< Num(0), Num(0) >>},
   HL : {Num(0), NaN}, HR : {Num(1)}]

\* a call of Roe1D.compute_flux / Roe2D.compute_flux
CallRoe(fn, batch) ==
  /\ lastCall = NoCall
  /\ lastCall' = [fn |-> fn, args |-> batch, out |-> RoeComputeFlux(batch)]
  /\ UNCHANGED stepperVars

(* ------------------- boundary conditions: get_boundary_state ----------- *)
BCKinds == {"SlipWall", "SlipWallRiemann", "PressureOutlet", "AdiabaticWall",
            "IsothermalWall0", "IsothermalWall1", "IsothermalWall2",
            "IsothermalWallRiemann"}

\* the interior values at one boundary point: the partial density of
\* UqI[:, :, srho], and the pressure and temperature the thermodynamic model
\* gives for UqI
BCPoints == [rho : {Num(-1), Num(0), Num(2)}, p : {Num(-1), Num(0), Num(3)},
             T : {Num(-1), Num(0), Num(5)}]

\* np.all(q < 0.) in place of np.any(q < 0.)
AllNegative(batch, q) == \A k \in DOMAIN batch : Lt0(batch[k][q])

\* np.any(q < 0.) for the interior quantity q
AnyNegative(batch, q) == \E k \in DOMAIN batch : Lt0(batch[k][q])

BCRaise == [raised |-> "NotPhysicalError", state |-> "none"]
BCState(how) == [raised |-> "none", state |-> how]

\* SlipWall.get_boundary_state: normal momentum removed, no check
SlipWall(batch) == BCState("UqB")
\* SlipWallRiemann.get_boundary_state: normal momentum flipped, no check
SlipWallRiemann(batch) == BCState("UqB")
\* the interior values at one point of a pressure outlet: also the normal
\* velocity velnI and the speed of sound cI
OutletPoints == [rho : {Num(2)}, p : {Num(-1), Num(0), Num(3)}, T : {Num(5)},
                 veln : {Num(1), Num(2), Num(3)}, c : {Num(2)}]

\* Mn = velnI/cI; Mn >= 1. at one point (cI > 0)
Supersonic(pt) == ~pt.veln.nan /\ ~pt.c.nan /\ pt.veln.v >= pt.c.v

\* PressureOutlet.get_boundary_state: if np.any(pI < 0.): raise;
\* if np.any(Mn >= 1.): return UqB, the copy of UqI; otherwise density,
\* momentum and energy of every point are overwritten with the state of
\* pressure pB and interior entropy
PressureOutlet(batch) ==
  IF AnyNegative(batch, "p") THEN BCRaise
  ELSE IF \E k \in DOMAIN batch : Supersonic(batch[k])
    THEN [raised |-> "none", state |-> "UqB",
          pts |-> [k \in DOMAIN batch |-> "interior"]]
  ELSE [raised |-> "none", state |-> "UqB",
        pts |-> [k \in DOMAIN batch |-> "prescribed"]]
\* AdiabaticWall.get_boundary_state: densities, then temperature
AdiabaticWall(batch) ==
  IF AnyNegative(batch, "rho") THEN BCRaise
  ELSE IF AnyNegative(batch, "T") THEN BCRaise
  ELSE BCState("UqB")
\* IsothermalWall.set_Y_T_p: if np.any(pI < 0.): raise
set_Y_T_p(batch) ==
  IF AnyNegative(batch, "p") THEN BCRaise ELSE BCState("UqB")
\* IsothermalWall.set_rhoE: if np.any(rhoiI < 0.): raise
set_rhoE(batch) ==
  IF AnyNegative(batch, "rho") THEN BCRaise ELSE BCState("UqB")
\* IsothermalWall.set_rho: if np.any(rhoiI < 0.): raise
set_rho(batch) ==
  IF AnyNegative(batch, "rho") THEN BCRaise ELSE BCState("UqB")
\* IsothermalWall.get_boundary_state: dispatch on self.method
IsothermalWall(method, batch) ==
  IF method = 1 THEN set_rhoE(batch)
  ELSE IF method = 2 THEN set_rho(batch)
  ELSE set_Y_T_p(batch)
\* IsothermalWallRiemann.get_boundary_state: if np.any(rhoiI < 0.): raise
IsothermalWallRiemann(batch) ==
  IF AnyNegative(batch, "rho") THEN BCRaise ELSE BCState("UqB")

GetBoundaryState(kind, batch) ==
  CASE kind = "SlipWall" -> SlipWall(batch)
    [] kind = "SlipWallRiemann" -> SlipWallRiemann(batch)
    [] kind = "PressureOutlet" -> PressureOutlet(batch)
    [] kind = "AdiabaticWall" -> AdiabaticWall(batch)
    [] kind = "IsothermalWall0" -> IsothermalWall(0, batch)
    [] kind = "IsothermalWall1" -> IsothermalWall(1, batch)
    [] kind = "IsothermalWall2" -> IsothermalWall(2, batch)
    [] kind = "IsothermalWallRiemann" -> IsothermalWallRiemann(batch)

\* a call of get_boundary_state of a boundary condition of kind kind
CallBC(kind, batch) ==
  /\ lastCall = NoCall
  /\ lastCall' = [fn |-> kind, args |-> batch,
                  out |-> GetBoundaryState(kind, batch)]
  /\ UNCHANGED stepperVars

(* ---------------------------- exact arithmetic -------------------------- *)
\* The values of valid states are rational numbers n/d in lowest terms with
\* d > 0; the inputs are chosen so that every square root taken is rational.
\* A division by zero gives 0/0, which every operation propagates and every
\* comparison answers with False (inf and nan of numpy).
RECURSIVE GCD(_, _)
GCD(a, b) == IF b = 0 THEN a ELSE GCD(b, a % b)
IAbs(i) == IF i < 0 THEN -i ELSE i
Q(n, d) ==
  IF d = 0 THEN [n |-> 0, d |-> 0]
  ELSE LET g == GCD(IAbs(n), IAbs(d))
           sg == IF d < 0 THEN -1 ELSE 1
       IN [n |-> sg * (n \div g), d |-> sg * (d \div g)]
QInt(i) == [n |-> i, d |-> 1]
\* common factors are removed before multiplying
QAdd(x, y) ==
  IF x.d = 0 \/ y.d = 0 THEN Q(0, 0)
  ELSE LET g == GCD(x.d, y.d)
       IN Q(x.n * (y.d \div g) + y.n * (x.d \div g), (x.d \div g) * y.d)
QNeg(x) == [n |-> -x.n, d |-> x.d]
QSub(x, y) == QAdd(x, QNeg(y))
QMul(x, y) ==
  IF x.d = 0 \/ y.d = 0 THEN Q(0, 0)
  ELSE LET g1 == GCD(IAbs(x.n), y.d)
           g2 == GCD(IAbs(y.n), x.d)
       IN Q((x.n \div g1) * (y.n \div g2), (x.d \div g2) * (y.d \div g1))
QInv(x) == Q(x.d, x.n)
QDiv(x, y) == QMul(x, QInv(y))
QAbs(x) == [n |-> IAbs(x.n), d |-> x.d]
QLt(x, y) == QSub(x, y).n < 0
QLe(x, y) == x.d # 0 /\ y.d # 0 /\ QSub(x, y).n <= 0
QMin(x, y) == IF QLt(y, x) THEN y ELSE x
QMax(x, y) == IF QLt(x, y) THEN y ELSE x
QHalf(x) == QMul(Q(1, 2), x)

\* the integer part of the square root of i, by Newton's iteration from r
RECURSIVE Root(_, _)
Root(i, r) ==
  IF r = 0 THEN 0
  ELSE LET next == (r + i \div r) \div 2
       IN IF next >= r THEN r ELSE Root(i, next)
IsSquare(x) ==
  /\ x.n >= 0 /\ x.d > 0
  /\ Root(x.n, x.n) * Root(x.n, x.n) = x.n
  /\ Root(x.d, x.d) * Root(x.d, x.d) = x.d
\* np.sqrt of a rational square
QSqrt(x) == IF x.n < 0 THEN Q(0, 0) ELSE Q(Root(x.n, x.n), Root(x.d, x.d))

\* vectors of ndims components
VAdd(v, w) == [i \in DOMAIN v |-> QAdd(v[i], w[i])]
VSub(v, w) == [i \in DOMAIN v |-> QSub(v[i], w[i])]
VScale(a, v) == [i \in DOMAIN v |-> QMul(a, v[i])]
RECURSIVE DotUpTo(_, _, _)
DotUpTo(v, w, i) ==
  IF i = 0 THEN QInt(0)
  ELSE QAdd(DotUpTo(v, w, i - 1), QMul(v[i], w[i]))
\* (v*w).sum(axis=2)
Dot(v, w) == DotUpTo(v, w, Len(v))
\* np.linalg.norm(v, axis=2)
Norm(v) == QSqrt(Dot(v, v))

\* state vectors [rho, rhou, rhoE] and fluxes of the same layout
State(rho, rhou, rhoE) == [rho |-> rho, rhou |-> rhou, rhoE |-> rhoE]
UAdd(U, W) == State(QAdd(U.rho, W.rho), VAdd(U.rhou, W.rhou),
                    QAdd(U.rhoE, W.rhoE))
USub(U, W) == State(QSub(U.rho, W.rho), VSub(U.rhou, W.rhou),
                    QSub(U.rhoE, W.rhoE))
UScale(a, U) == State(QMul(a, U.rho), VScale(a, U.rhou), QMul(a, U.rhoE))

(* ------------------------ calorically perfect gas ---------------------- *)
\* thermo.gamma
gamma == Q(7, 5)
gm1 == QSub(gamma, QInt(1))
\* physics.velocity: rhou / rho
Velocity(U) == VScale(QDiv(QInt(1), U.rho), U.rhou)
\* physics.kinetic_energy: 0.5*|rhou|^2 / rho
KineticEnergy(U) == QHalf(QDiv(Dot(U.rhou, U.rhou), U.rho))
\* thermo.p = (gamma - 1)*(rhoE - kinetic energy)
Pressure(U) == QMul(gm1, QSub(U.rhoE, KineticEnergy(U)))
\* thermo.e: specific internal energy
InternalEnergy(U) == QDiv(QSub(U.rhoE, KineticEnergy(U)), U.rho)
\* thermo.c = sqrt(gamma*p/rho)
SoundSpeed2(U) == QDiv(QMul(gamma, Pressure(U)), U.rho)
SoundSpeed(U) == QSqrt(SoundSpeed2(U))
\* TotalEnthalpy: (rhoE + p) / rho
TotalEnthalpy(U) == QDiv(QAdd(U.rhoE, Pressure(U)), U.rho)

\* the conserved state of density rho, velocity u and pressure P:
\* rhoE = P / (gamma - 1.) + 0.5 * rho * u * u
StateOf(rho, u, P) ==
  State(rho, VScale(rho, u),
        QAdd(QDiv(P, gm1), QHalf(QMul(rho, Dot(u, u)))))
QVec(u) == [i \in DOMAIN u |-> QInt(u[i])]
\* the state of integer density, velocity and pressure
TestState(pr) == StateOf(QInt(pr.rho), QVec(pr.u), QInt(pr.P))
\* the state of integer density, velocity and speed of sound c
Conserved(rho, u, c) ==
  StateOf(QInt(rho), QVec(u), QDiv(QInt(rho * c * c), gamma))

\* the pressure is added to every momentum flux, not only to the diagonal
ConvFluxInteriorFullPressure(U) ==
  LET u == Velocity(U)
      p == Pressure(U)
  IN [F |-> [d \in DOMAIN u |->
               State(U.rhou[d],
                     [i \in DOMAIN u |-> QAdd(QMul(U.rhou[i], u[d]), p)],
                     QMul(QAdd(U.rhoE, p), u[d]))],
      u2 |-> Dot(u, u), rho |-> U.rho, p |-> p]

\* Euler.get_conv_flux_interior(Uq): the flux F[:, :, :, d] in every
\* direction d and the values (u2, rho, p)
get_conv_flux_interior(U) ==
  LET u == Velocity(U)
      p == Pressure(U)
  IN [F |-> [d \in DOMAIN u |->
               State(U.rhou[d],
                     [i \in DOMAIN u |->
                        QAdd(QMul(U.rhou[i], u[d]),
                             IF i = d THEN p ELSE QInt(0))],
                     QMul(QAdd(U.rhoE, p), u[d]))],
      u2 |-> Dot(u, u), rho |-> U.rho, p |-> p]

\* the reference flux of the tests, from density, velocity and pressure
Fref(pr) ==
  LET rho == QInt(pr.rho)
      u == QVec(pr.u)
      P == QInt(pr.P)
      rhoE == TestState(pr).rhoE
  IN [d \in DOMAIN u |->
        State(QMul(rho, u[d]),
              [i \in DOMAIN u |->
                 QAdd(QMul(QMul(rho, u[i]), u[d]),
                      IF i = d THEN P ELSE QInt(0))],
              QMul(QAdd(rhoE, P), u[d]))]

\* density, velocity and pressure of the states the flux is evaluated at
InteriorPrims ==
  [rho : {1, 2, 3}, P : {1, 5, 7},
   u : {<< 0 >>, << -2 >>, << 3 >>, << 0, 0 >>, << 2, -1 >>, << 0, 3 >>,
        << -1, -1 >>}]

\* physics.get_conv_flux_interior(Uq) is called
CallConvFluxInterior(pr) ==
  /\ lastCall' = [fn |-> "get_conv_flux_interior", args |-> pr,
                  out |-> get_conv_flux_interior(TestState(pr))]
  /\ UNCHANGED stepperVars

\* Euler.get_conv_flux_projected(Uq, n_hat): the analytic flux projected on
\* the unit normal
get_conv_flux_projected(U, n_hat) ==
  LET un == Dot(Velocity(U), n_hat)
      p == Pressure(U)
  IN State(QMul(U.rho, un),
           VAdd(VScale(un, U.rhou), VScale(p, n_hat)),
           QMul(QAdd(U.rhoE, p), un))

(* --------------------------- numerical fluxes -------------------------- *)
\* A point of a face: the left and right states, given by their density,
\* velocity and speed of sound, and the normal vector.
FluxPrims1D == [rho : {1, 4}, u : {<< -3 >>, << 0 >>, << 2 >>}, c : {1, 2}]
FluxPrims2D ==
  [rho : {1, 4}, u : {<< 0, 0 >>, << 3, 4 >>, << 4, -3 >>, << 0, -2 >>},
   c : {1, 2}]
Normals1D == {<< 1 >>, << -1 >>, << 2 >>, << -2 >>}
Normals2D == {<< 1, 0 >>, << -1, 0 >>, << 0, 2 >>, << 0, -2 >>, << 3, 4 >>,
              << -3, -4 >>}
FacePoints ==
  [L : FluxPrims1D, R : FluxPrims1D, n : Normals1D]
    \cup [L : FluxPrims2D, R : FluxPrims2D, n : Normals2D]
\* the points of the faces evaluated as one batch
BatchPoints ==
  { pt \in FacePoints :
      /\ pt.n \in {<< 1 >>, << 3, 4 >>}
      /\ pt.L.rho = 1 /\ pt.R.rho = 1 /\ pt.L.c = 1 /\ pt.R.c = 2
      /\ pt.L.u \in {<< -3 >>, << 2 >>, << 4, -3 >>}
      /\ pt.R.u \in {<< -3 >>, << 0 >>, << 3, 4 >>} }

\* the arrays of one call have one number of dimensions
SameDim(batch) == \A k \in DOMAIN batch : Len(batch[k].n) = Len(batch[1].n)

UqL(pt) == Conserved(pt.L.rho, pt.L.u, pt.L.c)
UqR(pt) == Conserved(pt.R.rho, pt.R.u, pt.R.c)
\* n_mag = np.linalg.norm(normals); n_hat = normals/n_mag
n_mag(pt) == Norm(QVec(pt.n))
n_hat(pt) == VScale(QDiv(QInt(1), n_mag(pt)), QVec(pt.n))
FqL(pt) == get_conv_flux_projected(UqL(pt), n_hat(pt))
\* the flux of the left state is taken for both sides
FqRFromLeft(pt) == get_conv_flux_projected(UqL(pt), n_hat(pt))
FqR(pt) == get_conv_flux_projected(UqR(pt), n_hat(pt))

\* the wave speed of the left state is used at every point
LaxFriedrichsLeftSpeed(batch) ==
  LET aL == [k \in DOMAIN batch |->
               QAdd(SoundSpeed(UqL(batch[k])),
                    Norm(Velocity(UqL(batch[k]))))]
  IN [k \in DOMAIN batch |->
        UScale(QHalf(n_mag(batch[k])),
               USub(UAdd(FqL(batch[k]), FqR(batch[k])),
                    UScale(aL[k], USub(UqR(batch[k]), UqL(batch[k])))))]

\* LaxFriedrichs.compute_flux
LaxFriedrichs(batch) ==
  LET \* aL = thermoL.c + np.linalg.norm(uLvec, axis=2, keepdims=True)
      aL == [k \in DOMAIN batch |->
               QAdd(SoundSpeed(UqL(batch[k])),
                    Norm(Velocity(UqL(batch[k]))))]
      aR == [k \in DOMAIN batch |->
               QAdd(SoundSpeed(UqR(batch[k])),
                    Norm(Velocity(UqR(batch[k]))))]
      \* idx = aR > aL; aL[idx] = aR[idx]
      a == [k \in DOMAIN batch |-> IF QLt(aL[k], aR[k]) THEN aR[k] ELSE aL[k]]
  IN [k \in DOMAIN batch |->
        UScale(QHalf(n_mag(batch[k])),
               USub(UAdd(FqL(batch[k]), FqR(batch[k])),
                    UScale(a[k], USub(UqR(batch[k]), UqL(batch[k])))))]

(* --------------------------------- HLLC -------------------------------- *)
\* the values compute_flux unpacks for one side of a point: thermo.rho, p,
\* c, e, the velocity vector uvec, its normal component u and its square
\* u2, the state Uq and the projected flux Fq
Side(U, n) ==
  [rho |-> U.rho, p |-> Pressure(U), a |-> SoundSpeed(U),
   e |-> InternalEnergy(U), uvec |-> Velocity(U),
   u |-> Dot(Velocity(U), n), u2 |-> Dot(Velocity(U), Velocity(U)),
   Uq |-> U, Fq |-> get_conv_flux_projected(U, n)]
LeftSide(pt) == Side(UqL(pt), n_hat(pt))
RightSide(pt) == Side(UqR(pt), n_hat(pt))

\* the argument of the square root of aRoe in get_wave_speeds_roe
ARoe2(L, R) ==
  LET rhoL_sqrt == QSqrt(L.rho)
      rhoR_sqrt == QSqrt(R.rho)
      denom == QDiv(QInt(1), QAdd(rhoL_sqrt, rhoR_sqrt))
      du == QSub(R.u, L.u)
  IN QAdd(QMul(QAdd(QMul(rhoL_sqrt, QMul(L.a, L.a)),
                    QMul(rhoR_sqrt, QMul(R.a, R.a))), denom),
          QMul(QHalf(QMul(QMul(rhoL_sqrt, rhoR_sqrt), QMul(du, du))),
               QMul(denom, denom)))

\* HLLC.get_wave_speeds_roe
get_wave_speeds_roe(L, R) ==
  LET rhoL_sqrt == QSqrt(L.rho)
      rhoR_sqrt == QSqrt(R.rho)
      denom == QDiv(QInt(1), QAdd(rhoL_sqrt, rhoR_sqrt))
      uRoe == QMul(QAdd(QMul(rhoL_sqrt, L.u), QMul(rhoR_sqrt, R.u)), denom)
      aRoe == QSqrt(ARoe2(L, R))
  IN [SL |-> QSub(uRoe, aRoe), SR |-> QAdd(uRoe, aRoe)]

\* p_pvrs of get_wave_speeds_pvrs
PPvrs(L, R) ==
  LET rho_avg == QHalf(QAdd(L.rho, R.rho))
      a_avg == QHalf(QAdd(L.a, R.a))
  IN QHalf(QSub(QAdd(L.p, R.p),
                QMul(QMul(QSub(R.u, L.u), rho_avg), a_avg)))
\* the argument of the square root of qL / qR:
\* 1.0 + (g+1)/(2.0*g) * (p_pvrs/pk - 1.0)
QArg(p_pvrs, pk) ==
  QAdd(QInt(1),
       QMul(QDiv(QAdd(gamma, QInt(1)), QMul(QInt(2), gamma)),
            QSub(QDiv(p_pvrs, pk), QInt(1))))

\* HLLC.get_wave_speeds_pvrs
get_wave_speeds_pvrs(L, R) ==
  LET p_pvrs == PPvrs(L, R)
      qL == IF QLt(L.p, p_pvrs) THEN QSqrt(QArg(p_pvrs, L.p)) ELSE QInt(1)
      qR == IF QLt(R.p, p_pvrs) THEN QSqrt(QArg(p_pvrs, R.p)) ELSE QInt(1)
  IN [SL |-> QSub(L.u, QMul(L.a, qL)), SR |-> QAdd(R.u, QMul(R.a, qR))]

\* HLLC.get_wave_speeds: SL, SR = uL-aL, uR+aR, then the minimum / maximum
\* with every estimator
Widest(L, R, roe, pvrs) ==
  [SL |-> QMin(QMin(QSub(L.u, L.a), roe.SL), pvrs.SL),
   SR |-> QMax(QMax(QAdd(R.u, R.a), roe.SR), pvrs.SR)]
get_wave_speeds(L, R) ==
  Widest(L, R, get_wave_speeds_roe(L, R), get_wave_speeds_pvrs(L, R))

\* every square root taken for the point is rational
SpeedsDefined(L, R) ==
  /\ IsSquare(ARoe2(L, R))
  /\ QLt(L.p, PPvrs(L, R)) => IsSquare(QArg(PPvrs(L, R), L.p))
  /\ QLt(R.p, PPvrs(L, R)) => IsSquare(QArg(PPvrs(L, R), R.p))
HLLCDefined(pt) ==
  /\ IsSquare(SoundSpeed2(UqL(pt))) /\ IsSquare(SoundSpeed2(UqR(pt)))
  /\ IsSquare(UqL(pt).rho) /\ IsSquare(UqR(pt).rho)
  /\ SpeedsDefined(LeftSide(pt), RightSide(pt))

\* Sstar = (pR - pk + uk*alphaL - uR*alphaR) / (alphaL - alphaR)
ShearSpeed(L, R, SL, SR) ==
  LET alphaL == QMul(L.rho, QSub(SL, L.u))
      alphaR == QMul(R.rho, QSub(SR, R.u))
  IN QDiv(QSub(QAdd(QSub(R.p, L.p), QMul(L.u, alphaL)), QMul(R.u, alphaR)),
          QSub(alphaL, alphaR))

\* dF = Sk*(Ustar - Uk) for the side k the values Sk, alphak and K (rhok,
\* pk, uk, u2k, ek, vk, Uk) belong to
StarCorrection(K, Sk, alphak, Sstar, n) ==
  LET rhokstar == QDiv(alphak, QSub(Sk, Sstar))
      C == QMul(QSub(Sstar, K.u), QAdd(Sstar, QDiv(K.p, alphak)))
      \* vk += n_hat*(Sstar - (vk*n_hat).sum(axis=1))
      vk == VAdd(K.uvec, VScale(QSub(Sstar, Dot(K.uvec, n)), n))
      \* Ustar = rhokstar*np.concatenate([Yk, vk, ek+0.5*u2k+C])
      Ustar == UScale(rhokstar,
                 State(QInt(1), vk, QAdd(QAdd(K.e, QHalf(K.u2)), C)))
  IN UScale(Sk, USub(Ustar, K.Uq))

\* np.where(mask)[:2]: the indices at which mask holds, in increasing order
RECURSIVE WhereUpTo(_, _)
WhereUpTo(mask, n) ==
  IF n = 0 THEN << >>
  ELSE IF mask[n] THEN Append(WhereUpTo(mask, n - 1), n)
  ELSE WhereUpTo(mask, n - 1)
Where(mask) == WhereUpTo(mask, Len(mask))

\* the rows selected by Sstar < 0 are taken as indices of the whole batch
idxR_sub(idx, j) == j

\* idxR_main = tuple([subidx[idxR] for subidx in idx]): the index in the
\* batch of row j of the points downselected by idx
idxR_main(idx, j) == idx[j]

\* HLLC.compute_flux from "Initialize flux to left flux" on: L, R and S are
\* the left values, the right values and the wave speeds of every point
HLLCSelect(batch, L, R, S) ==
  LET N == DOMAIN batch
      \* F = FqL; F[idx] = FqR[idx] where SR <= 0
      F0 == [k \in N |-> IF QLe(S[k].SR, QInt(0)) THEN R[k].Fq ELSE L[k].Fq]
      \* downselect to points where SL < 0 < SR
      idx == Where([k \in N |-> /\ QLt(S[k].SL, QInt(0))
                               /\ QLt(QInt(0), S[k].SR)])
      M == DOMAIN idx
      alphaL == [j \in M |-> QMul(L[idx[j]].rho,
                                  QSub(S[idx[j]].SL, L[idx[j]].u))]
      alphaR == [j \in M |-> QMul(R[idx[j]].rho,
                                  QSub(S[idx[j]].SR, R[idx[j]].u))]
      Sstar == [j \in M |-> ShearSpeed(L[idx[j]], R[idx[j]],
                                       S[idx[j]].SL, S[idx[j]].SR)]
      \* overwrite values with right side where Sstar < 0
      idxR == { j \in M : QLt(Sstar[j], QInt(0)) }
      Sk == [j \in M |-> IF j \in idxR THEN S[idxR_main(idx, j)].SR
                         ELSE S[idx[j]].SL]
      K == [j \in M |-> IF j \in idxR THEN R[idxR_main(idx, j)]
                        ELSE L[idx[j]]]
      F1 == [k \in N |->
               IF \E j \in idxR : idxR_main(idx, j) = k
                 THEN R[k].Fq ELSE F0[k]]
      alphak == [j \in M |-> IF j \in idxR THEN alphaR[j] ELSE alphaL[j]]
      dF == [j \in M |-> StarCorrection(K[j], Sk[j], alphak[j], Sstar[j],
                                        n_hat(batch[idx[j]]))]
      \* F[idx] += dF
      F == [k \in N |->
              IF \E j \in M : idx[j] = k
                THEN UAdd(F1[k], dF[CHOOSE j \in M : idx[j] = k])
                ELSE F1[k]]
  IN [k \in N |-> UScale(n_mag(batch[k]), F[k])]

\* HLLC.compute_flux from "Estimate the wave speeds" on
HLLCSpeeds(batch, L, R) ==
  HLLCSelect(batch, L, R,
             [k \in DOMAIN batch |-> get_wave_speeds(L[k], R[k])])

\* HLLC.compute_flux
HLLC(batch) ==
  HLLCSpeeds(batch, [k \in DOMAIN batch |-> LeftSide(batch[k])],
                    [k \in DOMAIN batch |-> RightSide(batch[k])])

(* ------------------------- Roe flux of valid states -------------------- *)
\* Roe1D.rotate_coord_sys: Uq[:, :, srhou] *= n;
\* Roe2D.rotate_coord_sys: normal and tangential momentum
rotate_coord_sys(U, n) ==
  IF Len(n) = 1
    THEN [U EXCEPT !.rhou = << QMul(@[1], n[1]) >>]
    ELSE [U EXCEPT !.rhou =
            << QAdd(QMul(@[1], n[1]), QMul(@[2], n[2])),
               QSub(QMul(@[2], n[1]), QMul(@[1], n[2])) >>]

\* Roe1D.undo_rotate_coord_sys: Uq[:, :, srhou] /= n;
\* Roe2D.undo_rotate_coord_sys
undo_rotate_coord_sys(F, n) ==
  IF Len(n) = 1
    THEN [F EXCEPT !.rhou = << QDiv(@[1], n[1]) >>]
    ELSE [F EXCEPT !.rhou =
            << QSub(QMul(@[1], n[1]), QMul(@[2], n[2])),
               QAdd(QMul(@[1], n[2]), QMul(@[2], n[1])) >>]

\* the rotated states of a point, their Roe average (roe_average_state) and
\* c2 = (gamma - 1.)*(HRoe - 0.5*np.sum(velRoe*velRoe))
RoeMeanOf(UL, UR) ==
  LET rhoL_sqrt == QSqrt(UL.rho)
      rhoR_sqrt == QSqrt(UR.rho)
      denom == QDiv(QInt(1), QAdd(rhoL_sqrt, rhoR_sqrt))
      velRoe == VScale(denom, VAdd(VScale(rhoL_sqrt, Velocity(UL)),
                                   VScale(rhoR_sqrt, Velocity(UR))))
      HRoe == QMul(QAdd(QMul(rhoL_sqrt, TotalEnthalpy(UL)),
                        QMul(rhoR_sqrt, TotalEnthalpy(UR))), denom)
  IN [UL |-> UL, UR |-> UR, rhoRoe |-> QMul(rhoL_sqrt, rhoR_sqrt),
      velRoe |-> velRoe, HRoe |-> HRoe,
      c2 |-> QMul(gm1, QSub(HRoe, QHalf(Dot(velRoe, velRoe))))]
RoeMean(pt) ==
  RoeMeanOf(rotate_coord_sys(UqL(pt), n_hat(pt)),
            rotate_coord_sys(UqR(pt), n_hat(pt)))

\* the checks of compute_flux pass and np.sqrt(c2) is rational
RoeDefined(pt) ==
  /\ IsSquare(UqL(pt).rho) /\ IsSquare(UqR(pt).rho)
  /\ QLt(QInt(0), RoeMean(pt).c2)
  /\ IsSquare(RoeMean(pt).c2)

\* Roe1D.get_alphas / Roe2D.get_alphas
get_alphas(c, c2, dp, dvel, drho, rhoRoe) ==
  LET ns == Len(dvel) + 2
      h == QDiv(Q(1, 2), c2)
      crd == QMul(QMul(c, rhoRoe), dvel[1])
  IN [l \in 1..ns |->
        IF l = 1 THEN QMul(h, QSub(dp, crd))
        ELSE IF l = ns THEN QMul(h, QAdd(dp, crd))
        ELSE IF l = 3 THEN QMul(rhoRoe, dvel[Len(dvel)])
        ELSE QSub(drho, QDiv(dp, c2))]

\* Roe1D.get_eigenvalues / Roe2D.get_eigenvalues
get_eigenvalues(velRoe, c) ==
  LET ns == Len(velRoe) + 2
  IN [l \in 1..ns |->
        IF l = 1 THEN QSub(velRoe[1], c)
        ELSE IF l = ns THEN QAdd(velRoe[1], c)
        ELSE velRoe[1]]

\* Roe1D.get_right_eigenvectors / Roe2D.get_right_eigenvectors: R[k][l] is
\* row k (the equation) of column l (the wave)
get_right_eigenvectors(c, evals, velRoe, HRoe) ==
  LET nd == Len(velRoe)
      ns == nd + 2
      vt == velRoe[nd]
  IN [k \in 1..ns |-> [l \in 1..ns |->
        IF nd = 2 /\ l = 3
          THEN IF k = 3 THEN QInt(1) ELSE IF k = ns THEN vt ELSE QInt(0)
        ELSE IF nd = 2 /\ k = 3 THEN vt
        ELSE IF k = 1 THEN QInt(1)
        ELSE IF k = 2
          THEN IF l = 1 THEN evals[1]
               ELSE IF l = ns THEN evals[ns] ELSE velRoe[1]
        ELSE IF l = 1 THEN QSub(HRoe, QMul(velRoe[1], c))
        ELSE IF l = ns THEN QAdd(HRoe, QMul(velRoe[1], c))
        ELSE QHalf(Dot(velRoe, velRoe))]]

RECURSIVE SumUpTo(_, _)
SumUpTo(f, n) == IF n = 0 THEN QInt(0) ELSE QAdd(SumUpTo(f, n - 1), f[n])

\* Roe1D.compute_flux / Roe2D.compute_flux at a point whose states pass the
\* checks, m the Roe-averaged state
RoeFluxOf(pt, m) ==
  LET nd == Len(pt.n)
      ns == nd + 2
      c == QSqrt(m.c2)
      \* get_differences
      drho == QSub(m.UR.rho, m.UL.rho)
      dvel == VSub(Velocity(m.UR), Velocity(m.UL))
      dp == QSub(Pressure(m.UR), Pressure(m.UL))
      alphas == get_alphas(c, m.c2, dp, dvel, drho, m.rhoRoe)
      evals == get_eigenvalues(m.velRoe, c)
      R == get_right_eigenvectors(c, evals, m.velRoe, m.HRoe)
      \* FRoe = np.einsum('ijkl, ijl -> ijk', R, np.abs(evals)*alphas)
      FRoe == [k \in 1..ns |->
                 SumUpTo([l \in 1..ns |->
                            QMul(R[k][l], QMul(QAbs(evals[l]), alphas[l]))],
                         ns)]
      FRoeStd == undo_rotate_coord_sys(
                   State(FRoe[1], [i \in 1..nd |-> FRoe[i + 1]], FRoe[ns]),
                   n_hat(pt))
  IN UScale(QHalf(n_mag(pt)), USub(UAdd(FqL(pt), FqR(pt)), FRoeStd))

\* the sum of the two projected fluxes, not halved
RoeFluxSum(pt) ==
  UScale(n_mag(pt), UAdd(FqL(pt), FqR(pt)))

RoeFlux(pt) == RoeFluxOf(pt, RoeMean(pt))

Roe(batch) == [k \in DOMAIN batch |-> RoeFlux(batch[k])]

\* states and normals for the fluxes that take square roots of averages
WidePrims1D ==
  [rho : {1, 4}, u : {<< -4 >>, << -1 >>, << 0 >>, << 1 >>, << 4 >>},
   c : {1, 2}]
WidePrims2D ==
  [rho : {1, 4}, c : {1, 2},
   u : {<< 0, 0 >>, << 3, 0 >>, << -3, 2 >>, << 0, 4 >>, << 4, -5 >>}]
WidePoints ==
  [L : WidePrims1D, R : WidePrims1D, n : {<< 1 >>, << -2 >>}]
    \cup [L : WidePrims2D, R : WidePrims2D,
          n : {<< 1, 0 >>, << 0, -2 >>, << -3, -4 >>}]
HLLCPoints == { pt \in WidePoints : HLLCDefined(pt) }
RoeFluxPoints == { pt \in WidePoints : RoeDefined(pt) }
\* the points of a 1D face evaluated as one batch: one for every branch of
\* the selection, with and without ties
Prim(rho, u, c) == [rho |-> rho, u |-> u, c |-> c]
Face(L, R, n) == [L |-> L, R |-> R, n |-> n]
HLLCBatchPoints ==
  { Face(Prim(1, << -4 >>, 1), Prim(1, << -4 >>, 1), << 1 >>),
    Face(Prim(1, << -4 >>, 1), Prim(1, << 4 >>, 1), << 1 >>),
    Face(Prim(1, << -4 >>, 1), Prim(4, << 0 >>, 1), << 1 >>),
    Face(Prim(1, << -4 >>, 2), Prim(4, << 4 >>, 2), << 1 >>),
    Face(Prim(1, << 1 >>, 1), Prim(4, << 4 >>, 2), << 1 >>),
    Face(Prim(4, << -4 >>, 2), Prim(1, << -1 >>, 1), << 1 >>) }

\* flux_fcn.compute_flux(physics, UqL, UqR, normals) is called
CallFlux(fn, batch, flux) ==
  /\ lastCall' = [fn |-> fn, args |-> batch, out |-> flux]
  /\ UNCHANGED stepperVars

(* --------------------- slip walls: the boundary state ------------------ *)
\* rhoveln = np.sum(UqI[:, :, srhou] * n_hat, axis=2, keepdims=True)
rhoveln(UqI, normals) == Dot(UqI.rhou, n_hat([n |-> normals]))

\* the normal momentum is removed along normals, not along n_hat
SlipWallNotNormalized(UqI, normals) ==
  State(UqI.rho,
        VSub(UqI.rhou, VScale(rhoveln(UqI, normals), QVec(normals))),
        UqI.rhoE)

\* SlipWall.get_boundary_state: UqB = UqI.copy();
\* UqB[:, :, srhou] -= rhoveln * n_hat
SlipWallUqB(UqI, normals) ==
  State(UqI.rho,
        VSub(UqI.rhou,
             VScale(rhoveln(UqI, normals), n_hat([n |-> normals]))),
        UqI.rhoE)

\* SlipWallRiemann.get_boundary_state: UqB[:, :, srhou] -= 2.0*rhoveln*n_hat
SlipWallRiemannUqB(UqI, normals) ==
  State(UqI.rho,
        VSub(UqI.rhou,
             VScale(QMul(QInt(2), rhoveln(UqI, normals)),
                    n_hat([n |-> normals]))),
        UqI.rhoE)

SlipWallKinds == {"SlipWall", "SlipWallRiemann"}
SlipWallState(kind, UqI, normals) ==
  IF kind = "SlipWall" THEN SlipWallUqB(UqI, normals)
  ELSE SlipWallRiemannUqB(UqI, normals)

\* get_boundary_state of a slip wall at one point with interior state
\* TestState(pr) and normal vector normals
CallSlipWall(kind, pr, normals) ==
  /\ Len(pr.u) = Len(normals)
  /\ lastCall' = [fn |-> "slip wall",
                  args |-> [kind |-> kind, UqI |-> TestState(pr),
                            normals |-> normals],
                  out |-> SlipWallState(kind, TestState(pr), normals)]
  /\ UNCHANGED stepperVars

(* ------------------------------- transport ----------------------------- *)
MaxOps == 4
TransportKinds == {"Cantera", "Mutationpp"}
\* thermo.THERMO_TYPE, and the ThermoModel the physics passes to the
\* constructor of its transport
ThermoTypes == {"Cantera", "Mutationpp", "Other"}
\* the Mechanism argument: the default of the constructor or another file
Mechanisms == {"default", "custom"}

\* an array object: its identity and the version of its contents
Array(id, ver) == [id |-> id, ver |-> ver]
NoArray == Array(0, 0)
\* a solution: the number of the computation that made it, the mechanism
\* and the temperature array (with its contents) it was made from
NoSolution == [n |-> 0, mech |-> "none", T |-> NoArray]
NoGet == [called |-> FALSE, native |-> FALSE, T |-> NoArray,
          before |-> << >>, after |-> << >>, ret |-> NoSolution,
          what |-> "none", trace |-> << >>]

\* CanteraTransport.__init__ / MutationppTransport.__init__: self.gas (or
\* self.internal_thermo) is built from Mechanism unless ThermoModel is the
\* native one; the cache is empty. ncomp counts the solutions computed.
TransportNew(kind, Mechanism, ThermoModel, ncomp) ==
  [kind |-> kind,
   gas |-> IF ThermoModel # kind THEN Mechanism ELSE "unset",
   internal |-> NoSolution,
   cached_T |-> NoArray.id,
   cached_solution |-> NoSolution,
   ncomp |-> ncomp]

\* the value of a constructor argument: its default or another value
ArgValues == {"default", "custom"}

\* ConstantTransport.__init__(PrandtlNumber=0.7, Viscosity=1.0, **kwargs)
ConstantTransport(PrandtlNumber, Viscosity) ==
  [kind |-> "Constant", Pr |-> PrandtlNumber, mu0 |-> Viscosity]

\* SutherlandTransport.__init__(PrandtlNumber=0.7, Viscosity=1.0, s=1.0,
\* T0=1.0, beta=1.5, **kwargs)
SutherlandTransport(PrandtlNumber, Viscosity, s, T0, beta) ==
  [kind |-> "Sutherland", Pr |-> PrandtlNumber, mu0 |-> Viscosity,
   s |-> s, T0 |-> T0, beta |-> beta]

\* TransportBase.reinitialize: self.__init__(**self.init_params), where
\* init_params holds the keyword arguments the constructor of the class
\* does not name; every argument it names takes its default
reinitialize(tr) ==
  CASE tr.kind = "Constant" -> ConstantTransport("default", "default")
    [] tr.kind = "Sutherland" ->
         SutherlandTransport("default", "default", "default", "default",
                             "default")
    [] OTHER -> TransportNew(tr.kind, "default", "NotNeeded", tr.ncomp)

\* CanteraTransport.get_solution
CanteraGetSolution(tr, th) ==
  IF th.type = "Cantera"
    THEN [what |-> "thermo.solution", ret |-> NoSolution, trace |-> << >>,
          transport |-> tr]
  ELSE IF tr.cached_T = th.T.id
    THEN [what |-> "_cached_solution", ret |-> tr.cached_solution,
          trace |-> << "read _cached_T", "read _cached_solution" >>,
          transport |-> tr]
  ELSE LET solution == [n |-> tr.ncomp + 1, mech |-> tr.gas, T |-> th.T]
       IN [what |-> "solution", ret |-> solution,
           trace |-> << "read _cached_T", "compute", "write _cached_T",
                        "write _cached_solution" >>,
           transport |-> [tr EXCEPT !.cached_T = th.T.id,
                                    !.cached_solution = solution,
                                    !.ncomp = @ + 1]]

\* the cached key is written before the state is recomputed
MutationppGetSolutionKeyOnly(tr, th) ==
  IF th.type = "Mutationpp"
    THEN [what |-> "thermo", ret |-> NoSolution, trace |-> << >>,
          transport |-> tr]
    ELSE [what |-> "internal_thermo", ret |-> tr.internal,
          trace |-> << "read _cached_T", "write _cached_T" >>,
          transport |-> [tr EXCEPT !.cached_T = th.T.id]]

\* MutationppTransport.get_solution
MutationppGetSolution(tr, th) ==
  IF th.type = "Mutationpp"
    THEN [what |-> "thermo", ret |-> NoSolution, trace |-> << >>,
          transport |-> tr]
  ELSE IF tr.cached_T # th.T.id
    THEN LET state == [n |-> tr.ncomp + 1, mech |-> tr.gas, T |-> th.T]
         IN [what |-> "internal_thermo", ret |-> state,
             trace |-> << "read _cached_T", "compute", "write _cached_T" >>,
             transport |-> [tr EXCEPT !.cached_T = th.T.id,
                                      !.internal = state,
                                      !.ncomp = @ + 1]]
  ELSE [what |-> "internal_thermo", ret |-> tr.internal,
        trace |-> << "read _cached_T" >>, transport |-> tr]

get_solution(tr, th) ==
  IF tr.kind = "Cantera" THEN CanteraGetSolution(tr, th)
                         ELSE MutationppGetSolution(tr, th)

\* the physics is set up with a thermodynamic model and builds its transport
\* with that model's name; the state has been set once
TransportInit ==
  /\ \/ \E kind \in TransportKinds, mech \in Mechanisms,
            type \in ThermoTypes :
          /\ transport = TransportNew(kind, mech, type, 0)
          /\ thermo = [type |-> type, T |-> Array(1, 0)]
     \/ \E Pr \in ArgValues, mu0 \in ArgValues :
          /\ transport = ConstantTransport(Pr, mu0)
          /\ thermo = [type |-> "Other", T |-> Array(1, 0)]
     \/ \E Pr \in ArgValues, mu0 \in ArgValues, s_ \in ArgValues,
            T0 \in ArgValues, beta \in ArgValues :
          /\ transport = SutherlandTransport(Pr, mu0, s_, T0, beta)
          /\ thermo = [type |-> "Other", T |-> Array(1, 0)]
  /\ lastGet = NoGet
  /\ nops = 0

\* no transport call is made
TransportIdle ==
  /\ transport = TransportNew("Cantera", "default", "Cantera", 0)
  /\ thermo = [type |-> "Cantera", T |-> Array(1, 0)]
  /\ lastGet = NoGet
  /\ nops = 0

\* an identity no live array has: _cached_T keeps its array alive
FreshArrayId ==
  CHOOSE n \in 1..3 :
    n \notin {thermo.T.id,
              IF transport.kind \in TransportKinds THEN transport.cached_T
              ELSE NoArray.id}

\* the thermodynamic state is set again: thermo.T is bound to a new array,
\* or the array it is bound to is overwritten
SetThermoState(inplace) ==
  /\ nops < MaxOps
  /\ nops' = nops + 1
  /\ thermo' = [thermo EXCEPT !.T =
       IF inplace THEN Array(@.id, 1 - @.ver) ELSE Array(FreshArrayId, 0)]
  /\ UNCHANGED << transport, lastGet >>

\* get_viscosity, get_thermal_conductivity or get_diffusion_coefficients
\* calls self.get_solution(thermo)
GetSolution ==
  /\ transport.kind \in TransportKinds
  /\ nops < MaxOps
  /\ nops' = nops + 1
  /\ LET r == get_solution(transport, thermo)
     IN /\ transport' = r.transport
        /\ lastGet' = [called |-> TRUE,
                       native |-> thermo.type = transport.kind,
                       T |-> thermo.T, before |-> transport,
                       after |-> r.transport, ret |-> r.ret,
                       what |-> r.what, trace |-> r.trace]
  /\ UNCHANGED thermo

\* transport.reinitialize() is called
Reinitialize ==
  /\ nops < MaxOps
  /\ nops' = nops + 1
  /\ transport' = reinitialize(transport)
  /\ UNCHANGED << thermo, lastGet >>

TransportNext ==
  /\ UNCHANGED << stepperVars, lastCall, quadVars >>
  /\ \/ \E inplace \in BOOLEAN : SetThermoState(inplace)
     \/ GetSolution
     \/ Reinitialize


(* ------------------------------ quadrature ----------------------------- *)
\* largest solution order passed to the quadrature functions
MaxOrder == 1
\* mesh.gorder
GOrders == {1, 2}
\* basis.__class__.__bases__[1].__name__, basis.faceshape and mesh.Dim of
\* the basis shapes QuadData.__init__ knows
Bases ==
  { [shape |-> "SegShape", faceshape |-> "PointShape", facedim |-> 0,
     Dim |-> 1],
    [shape |-> "QuadShape", faceshape |-> "SegShape", facedim |-> 1,
     Dim |-> 2],
    [shape |-> "TriShape", faceshape |-> "SegShape", facedim |-> 1,
     Dim |-> 2] }
\* EqnSet=None, or an equation set with its attribute BasisADER: 0, or (1)
\* the basis of the ADER predictor
NoEqnSet == [isNone |-> TRUE, BasisADER |-> 0]
EqnSets == {NoEqnSet} \cup [isNone : {FALSE}, BasisADER : {0, 1}]
\* EqnSet.QuadOrder(order) (physics base class): 2*order + 1
EqnSetQuadOrder(order) == 2 * order + 1
\* quadData=None
NoQuadData == [isNone |-> TRUE, order |-> 0, Shape |-> ""]
NoQuadEnv == [basis |-> [shape |-> "", faceshape |-> "", facedim |-> 0,
                         Dim |-> 0],
              gorder |-> 0, EqnSet |-> NoEqnSet, interned |-> TRUE]

\* shape is 'QuadShape': the identity of two strings; equal strings are one
\* object only where the interpreter has interned both (interned)
IsQuadShape(shape, interned) == shape = "QuadShape" /\ interned

\* "Logic to subtract one if using ADER": EqnSet.BasisADER is not 0
QuadOrderADER(env, QuadOrder) ==
  IF ~env.EqnSet.isNone /\ env.basis.Dim = 1 /\ env.EqnSet.BasisADER # 0
    THEN QuadOrder - 1 ELSE QuadOrder

\* the body shared by the two functions: dim is the dimension the geometry
\* order counts for, sdim the one added for QuadShape, shape the shape that
\* is compared with quadData.Shape
GaussianQuadrature(env, order, qd, dim, sdim, shape) ==
  LET Q0 == IF env.EqnSet.isNone THEN order ELSE EqnSetQuadOrder(order)
      Q1 == IF env.gorder > 1 THEN Q0 + dim * (env.gorder - 1) ELSE Q0
      Q2 == IF IsQuadShape(env.basis.shape, env.interned)
              THEN Q1 + sdim ELSE Q1
  IN [QuadOrder |-> QuadOrderADER(env, Q2),
      QuadChanged |-> ~(/\ ~qd.isNone
                        /\ Q2 = qd.order /\ shape = qd.Shape)]

\* get_gaussian_quadrature_elem(mesh, basis, order, EqnSet, quadData)
get_gaussian_quadrature_elem(env, order, qd) ==
  GaussianQuadrature(env, order, qd, env.basis.Dim, env.basis.Dim,
                     env.basis.shape)

\* get_gaussian_quadrature_face(mesh, IFace, basis, order, EqnSet, quadData)
get_gaussian_quadrature_face(env, order, qd) ==
  GaussianQuadrature(env, order, qd, env.basis.Dim - 1, env.basis.facedim,
                     env.basis.faceshape)

\* QuadData.__init__(mesh, basis, entity, order): self.order and self.Shape
QuadData(env, entity, order) ==
  [isNone |-> FALSE, order |-> order,
   Shape |-> IF entity = "Element" THEN env.basis.shape
             ELSE env.basis.faceshape]

QuadFns == {"get_gaussian_quadrature_elem", "get_gaussian_quadrature_face"}
QuadEntity(fn) ==
  IF fn = "get_gaussian_quadrature_elem" THEN "Element" ELSE "IFace"
QuadCall(fn, env, order, qd) ==
  IF fn = "get_gaussian_quadrature_elem"
    THEN get_gaussian_quadrature_elem(env, order, qd)
    ELSE get_gaussian_quadrature_face(env, order, qd)

\* no quadrature function is called
QuadIdle == quadEnv = NoQuadEnv /\ quadData = NoQuadData

\* a mesh, a basis and an equation set; no QuadData has been built
QuadInit ==
  /\ quadEnv \in [basis : Bases, gorder : GOrders, EqnSet : EqnSets,
                  interned : BOOLEAN]
  /\ quadData = NoQuadData

\* QuadOrder, QuadChanged = get_gaussian_quadrature_elem / _face(...) with
\* the QuadData held, or without one
CallQuadrature(fn, order, qd) ==
  /\ lastCall' = [fn |-> fn,
                  args |-> [order |-> order, quadData |-> qd],
                  out |-> QuadCall(fn, quadEnv, order, qd)]
  /\ UNCHANGED quadVars

\* if QuadChanged: quadData = QuadData(mesh, basis, entity, QuadOrder)
NewQuadData ==
  /\ lastCall.fn \in QuadFns
  /\ lastCall.out.QuadChanged
  /\ quadData' = QuadData(quadEnv, QuadEntity(lastCall.fn),
                          lastCall.out.QuadOrder)
  /\ UNCHANGED << lastCall, quadEnv >>

QuadNext ==
  /\ UNCHANGED << stepperVars, transportVars >>
  /\ \/ \E fn \in QuadFns, order \in 0..MaxOrder :
          CallQuadrature(fn, order, quadData)
     \/ \E fn \in QuadFns, order \in 0..MaxOrder :
          CallQuadrature(fn, order, NoQuadData)
     \/ NewQuadData


(* ------------------------ arrays and their buffers --------------------- *)
\* What a function does to the ndarray objects it handles.  A name is bound
\* to an object, an object reads and writes a buffer:
\*   new    dst = an expression or a call that allocates its result
\*   copy   dst = src.copy()
\*   fancy  dst = src[*idx, :] with integer index arrays (a copy)
\*   view   dst = src[:, :, slice] (a new object on the buffer of src)
\*   alias  dst = src (the same object)
\*   write  dst[...] = value, dst op= value (in place, in the buffer of dst)
\*   return dst
Stmt(op, dst, src) == [op |-> op, dst |-> dst, src |-> src]

\* LaxFriedrichs.compute_flux(physics, UqL, UqR, normals)
LaxFriedrichsArrays ==
  << Stmt("new", "n_mag", "normals"), Stmt("new", "n_hat", "normals"),
     Stmt("new", "FqL", "UqL"), Stmt("new", "aL", "UqL"),
     Stmt("new", "FqR", "UqR"), Stmt("new", "aR", "UqR"),
     Stmt("new", "dUq", "UqR"), Stmt("new", "idx", "aR"),
     Stmt("write", "aL", "aR"),
     Stmt("new", "flux", "FqL"), Stmt("return", "flux", "") >>

\* Roe1D.compute_flux with UqL = UqL_std and UqR = UqR_std (no copies)
RoeArraysNoCopy ==
  << Stmt("new", "n_mag", "normals"), Stmt("new", "n_hat", "normals"),
     Stmt("alias", "UqL", "UqL_std"), Stmt("alias", "UqR", "UqR_std"),
     Stmt("write", "UqL", "n_hat"), Stmt("write", "UqR", "n_hat"),
     Stmt("new", "FRoe", "UqL"), Stmt("write", "FRoe", "n_hat"),
     Stmt("new", "FL", "UqL_std"), Stmt("new", "FR", "UqR_std"),
     Stmt("new", "flux", "FL"), Stmt("return", "flux", "") >>

\* Roe1D.compute_flux(physics, UqL_std, UqR_std, normals), inherited by
\* Roe2D: rotate_coord_sys and undo_rotate_coord_sys write the momentum of
\* the array they are given (Roe2D through self.vel, allocated here)
RoeArrays ==
  << Stmt("new", "self.vel", ""),
     Stmt("new", "n_mag", "normals"), Stmt("new", "n_hat", "normals"),
     Stmt("copy", "UqL", "UqL_std"), Stmt("copy", "UqR", "UqR_std"),
     Stmt("write", "self.vel", "UqL"), Stmt("write", "UqL", "self.vel"),
     Stmt("write", "self.vel", "UqR"), Stmt("write", "UqR", "self.vel"),
     Stmt("new", "FRoe", "UqL"),
     Stmt("write", "self.vel", "FRoe"), Stmt("write", "FRoe", "self.vel"),
     Stmt("new", "FL", "UqL_std"), Stmt("new", "FR", "UqR_std"),
     Stmt("new", "flux", "FL"), Stmt("return", "flux", "") >>

\* HLLC.compute_flux(physics, UqL, UqR, normals): F is FqL, and the values
\* "initialized with left values" are taken with index arrays
HLLCArrays ==
  << Stmt("new", "n_mag", "normals"), Stmt("new", "n_hat", "normals"),
     Stmt("new", "FqL", "UqL"), Stmt("new", "uLvec", "UqL"),
     Stmt("new", "FqR", "UqR"), Stmt("new", "uRvec", "UqR"),
     Stmt("alias", "F", "FqL"), Stmt("write", "F", "FqR"),
     Stmt("fancy", "vk", "uLvec"), Stmt("fancy", "Uk", "UqL"),
     Stmt("new", "alphak", "UqL"), Stmt("alias", "alphaL", "alphak"),
     Stmt("write", "vk", "uRvec"), Stmt("write", "Uk", "UqR"),
     Stmt("write", "F", "FqR"), Stmt("write", "alphak", "UqR"),
     Stmt("write", "vk", "n_hat"),
     Stmt("new", "dF", "Uk"), Stmt("write", "F", "dF"),
     Stmt("new", "flux", "F"), Stmt("return", "flux", "") >>

\* get_boundary_state(physics, UqI, normals, x, t) of the boundary
\* conditions: UqB = UqI.copy(), the slices rhoiI and rhouB of UqI that the
\* isothermal walls read, the slice rhoEB of UqB, and the slices of UqB
\* that are assigned; the supersonic pressure outlet returns the copy as
\* it is
BCArrays(kind) ==
  << Stmt("copy", "UqB", "UqI"), Stmt("new", "n_hat", "normals"),
     Stmt("view", "rhoiI", "UqI"), Stmt("view", "rhouB", "UqI"),
     Stmt("view", "rhoEB", "UqB") >>
  \o (IF kind = "PressureOutletSupersonic" THEN << >>
      ELSE << Stmt("write", "UqB", "UqI") >>)
  \o << Stmt("return", "UqB", "") >>

\* helpers.evaluate_state(Uc, basis_val, skip_interp)
EvaluateStateArrays(skip_interp) ==
  << IF skip_interp THEN Stmt("copy", "Uq", "Uc")
     ELSE Stmt("new", "Uq", "Uc"),
     Stmt("return", "Uq", "") >>

\* the functions, their array arguments and what they do with them
ArrayFns ==
  { [fn |-> "LaxFriedrichs", inputs |-> << "UqL", "UqR", "normals" >>,
     body |-> LaxFriedrichsArrays],
    [fn |-> "Roe1D", inputs |-> << "UqL_std", "UqR_std", "normals" >>,
     body |-> RoeArrays],
    [fn |-> "Roe2D", inputs |-> << "UqL_std", "UqR_std", "normals" >>,
     body |-> RoeArrays],
    [fn |-> "HLLC", inputs |-> << "UqL", "UqR", "normals" >>,
     body |-> HLLCArrays],
    [fn |-> "evaluate_state", inputs |-> << "Uc", "basis_val" >>,
     body |-> EvaluateStateArrays(TRUE)],
    [fn |-> "evaluate_state interp", inputs |-> << "Uc", "basis_val" >>,
     body |-> EvaluateStateArrays(FALSE)] }
  \cup { [fn |-> kind, inputs |-> << "UqI", "normals" >>,
          body |-> BCArrays(kind)] :
         kind \in (BCKinds \ {"IsothermalWall0", "IsothermalWall1",
                              "IsothermalWall2"})
                    \cup {"PressureOutletSupersonic", "IsothermalWall"} }

\* the objects the caller passes: one object and buffer per argument, or
\* (same) the first argument passed a second time as the second
ArrayArgs(inputs, same) ==
  [i \in 1..Len(inputs) |->
     IF same /\ i = 2 THEN [obj |-> 1, buf |-> 1] ELSE [obj |-> i, buf |-> i]]

\* one statement executed: env binds the names, next is the next unused
\* object / buffer number, written the buffers written so far
ArrayStep(st, s) ==
  LET fresh == [obj |-> st.next, buf |-> st.next]
  IN CASE s.op \in {"new", "copy", "fancy"} ->
            [st EXCEPT !.env = (s.dst :> fresh) @@ st.env,
                       !.next = st.next + 1]
       [] s.op = "view" ->
            [st EXCEPT !.env = (s.dst :> [obj |-> st.next,
                                          buf |-> st.env[s.src].buf])
                                 @@ st.env,
                       !.next = st.next + 1]
       [] s.op = "alias" ->
            [st EXCEPT !.env = (s.dst :> st.env[s.src]) @@ st.env]
       [] s.op = "write" ->
            [st EXCEPT !.written = st.written \cup {st.env[s.dst].buf}]
       [] s.op = "return" -> [st EXCEPT !.ret = st.env[s.dst]]

RECURSIVE RunArrays(_, _, _)
RunArrays(body, i, st) ==
  IF i > Len(body) THEN st
  ELSE RunArrays(body, i + 1, ArrayStep(st, body[i]))

\* the function f called with the arguments args: the object returned and
\* the buffers written
ArraysOf(f, args) ==
  LET st == RunArrays(f.body, 1,
              [env |-> [n \in {f.inputs[i] : i \in DOMAIN f.inputs} |->
                          args[CHOOSE i \in DOMAIN f.inputs :
                                 f.inputs[i] = n]],
               next |-> Len(f.inputs) + 1, written |-> {},
               ret |-> [obj |-> 0, buf |-> 0]])
  IN [ret |-> st.ret, written |-> st.written]

CallArrays(f, same) ==
  /\ lastCall' = [fn |-> "arrays", args |-> [f |-> f.fn,
                    inputs |-> ArrayArgs(f.inputs, same)],
                  out |-> ArraysOf(f, ArrayArgs(f.inputs, same))]
  /\ UNCHANGED stepperVars

(* ------------------------- SmoothIsentropicFlow ------------------------ *)
\* the characteristic feet fsolve can return for the points of one element:
\* f1 and f2 have the root x1 = x2 = x at t = 0, for any x
Feet == {Q(-3, 2), QInt(0), QInt(1), Q(3, 2)}

\* np.abs(x1.any()): any() is the truth value "some element is not zero",
\* and its absolute value is that of False (0) or True (1)
AbsAny(xs) == IF \E i \in DOMAIN xs : xs[i].n # 0 THEN 1 ELSE 0

\* if np.abs(x1.any()) > 1.: raise Exception(...)
OutOfRange(xs) == AbsAny(xs) > 1

\* SmoothIsentropicFlow.get_state for one element whose nonlinear solves
\* give the feet x1 and x2: the exception raised, or the state returned
SmoothIsentropicFlowGetState(x1, x2) ==
  IF OutOfRange(x1) THEN [raised |-> TRUE, msg |-> "x1"]
  ELSE IF OutOfRange(x2) THEN [raised |-> TRUE, msg |-> "x2"]
  ELSE [raised |-> FALSE, msg |-> ""]

CallGetState(x1, x2) ==
  /\ lastCall' = [fn |-> "SmoothIsentropicFlow.get_state",
                  args |-> [x1 |-> x1, x2 |-> x2],
                  out |-> SmoothIsentropicFlowGetState(x1, x2)]
  /\ UNCHANGED stepperVars

\* the stepper of a solver whose physics functions are called
PhysicsStepper ==
  /\ StepperInit
  /\ scheme = "FE" /\ physU.shape = << 1, 1, 3 >>
  /\ params.SourceSwitch /\ params.ConvFluxSwitch

PhysicsInit ==
  /\ PhysicsStepper
  /\ lastCall = NoCall
  /\ TransportIdle
  /\ QuadIdle

\* one physics function is called, once, on a batch of points
PhysicsNext ==
  /\ lastCall = NoCall
  /\ UNCHANGED << transportVars, quadVars >>
  /\ \/ \E b \in Batches(RoePoints1D) : CallRoe("Roe1D", b)
     \/ \E b \in Batches(RoePoints2D) : CallRoe("Roe2D", b)
     \/ \E kind \in BCKinds \ {"PressureOutlet"}, b \in Batches(BCPoints) :
          CallBC(kind, b)
     \/ \E b \in Batches(OutletPoints) : CallBC("PressureOutlet", b)
     \/ \E n \in 1..MaxPts : \E x1 \in [1..n -> Feet], x2 \in [1..n -> Feet] :
          CallGetState(x1, x2)
     \/ \E f \in ArrayFns, same \in BOOLEAN : CallArrays(f, same)
     \/ \E kind \in SlipWallKinds, pr \in InteriorPrims,
           normals \in Normals1D \cup Normals2D :
          CallSlipWall(kind, pr, normals)

SpecPhysics == PhysicsInit /\ [][PhysicsNext]_vars

\* the batches of one point
One(S) == { << pt >> : pt \in S }
\* one flux function is called, once
FluxNext ==
  /\ lastCall = NoCall
  /\ UNCHANGED << transportVars, quadVars >>
  /\ \/ \E pr \in InteriorPrims : CallConvFluxInterior(pr)
     \/ \E b \in One(FacePoints)
                  \cup { x \in Batches(BatchPoints) : SameDim(x) } :
          CallFlux("LaxFriedrichs", b, LaxFriedrichs(b))
     \/ \E b \in One(RoeFluxPoints) : CallFlux("Roe", b, Roe(b))
     \/ \E b \in One(HLLCPoints) \cup Batches(HLLCBatchPoints) :
          CallFlux("HLLC", b, HLLC(b))

SpecFlux == PhysicsInit /\ [][FluxNext]_vars

\* the transport object used by a physics with a given thermodynamic model
TransportSpecInit ==
  PhysicsStepper /\ lastCall = NoCall /\ TransportInit /\ QuadIdle
SpecTransport == TransportSpecInit /\ [][TransportNext]_vars

\* the functions that choose the quadrature of an element or a face
QuadSpecInit ==
  PhysicsStepper /\ lastCall = NoCall /\ TransportIdle /\ QuadInit
SpecQuad == QuadSpecInit /\ [][QuadNext]_vars

(* ------------------------------ the stepper ---------------------------- *)
Init == StepperInit /\ lastCall = NoCall /\ TransportIdle /\ QuadIdle
Next == StepperNext /\ UNCHANGED << lastCall, transportVars, quadVars >>
Spec == Init /\ [][Next]_vars


(* ------------------------- properties of the log ----------------------- *)
\* positions of the log whose call is op
Idx(op) == { i \in 1..Len(log) : log[i].op = op }
\* the calls of sub-schemes made so far, in order: << name, dt, sub >>
RECURSIVE CallsUpTo(_)
CallsUpTo(n) ==
  IF n = 0 THEN << >>
  ELSE IF log[n].op = "call"
         THEN Append(CallsUpTo(n - 1), << log[n].on, log[n].n, log[n].sub >>)
         ELSE CallsUpTo(n - 1)
Calls == CallsUpTo(Len(log))
IsPrefix(s, t) == Len(s) <= Len(t) /\ SubSeq(t, 1, Len(s)) = s
\* the sub-step sub has returned before position i
ReturnedBefore(sub, i) ==
  \E k \in 1..(i - 1) : log[k].op = "ret" /\ log[k].sub = sub
\* position of the last residual evaluation of sub-step sub (0: none)
LastRes(sub) ==
  LET rs == { i \in Idx("res") : log[i].sub = sub }
  IN IF rs = {} THEN 0 ELSE CHOOSE i \in rs : \A j \in rs : j <= i

\* C1: a Strang step makes exactly three sub-scheme calls, in this order:
\* explicit with dt/2, implicit with dt, explicit with dt/2; a sub-step is
\* called only after the previous one has returned; every residual is
\* evaluated inside one of the three; the value returned is the residual of
\* the last evaluation of the second explicit half-step.
C1_StrangSequence ==
  scheme = "Strang" /\ status \in {"running", "returned", "raised"} =>
    LET want == << << "explicit", dt.self \div 2, 1 >>,
                   << "implicit", dt.self, 2 >>,
                   << "explicit", dt.self \div 2, 3 >> >>
    IN /\ IsPrefix(Calls, want)
       /\ \A i \in Idx("call") :
            log[i].sub > 1 => ReturnedBefore(log[i].sub - 1, i)
       /\ \A i \in Idx("res") : log[i].sub \in {1, 2, 3}
       /\ \A i \in Idx("mult") :
            log[i].n = IF log[i].sub = 2 THEN dt.self
                       ELSE IF explicit = "ADER" THEN (dt.self \div 2) \div 2
                       ELSE dt.self \div 2
       /\ status = "returned" =>
            /\ Calls = want
            /\ retval = [obj |-> "explicit", ev |-> LastRes(3)]
            /\ LastRes(3) > 0

C1_Witness ==
  /\ scheme = "Strang" /\ status = "returned" /\ explicit = "RK4"
  /\ Len(Calls) = 3

\* C2: every residual evaluation of a Strang step made in an explicit
\* half-step sees ConvFluxSwitch = True and SourceSwitch = False, and every
\* one made in the implicit step sees SourceSwitch = True and
\* ConvFluxSwitch = False.
C2_StrangFlags ==
  scheme = "Strang" =>
    \A i \in Idx("res") :
      /\ log[i].sub \in {1, 3} => log[i].C /\ ~log[i].S
      /\ log[i].sub = 2 => log[i].S /\ ~log[i].C

\* C3 as stated: the residual evaluation of Simpler that gives the balance
\* constant is made on physics.U as it was on entry and with the source
\* contribution enabled.
C3_SourceEnabled ==
  scheme = "Simpler" =>
    \A i \in Idx("res") :
      log[i].prog = "Simpler" =>
        /\ log[i].on = "U" /\ log[i].Uid = entry.Uid /\ log[i].ver = entry.ver
        /\ log[i].S

\* C3 amended: the residual evaluation of Simpler that gives the balance
\* constant is made on physics.U as it was on entry, before any sub-step,
\* with the source contribution disabled (SourceSwitch = False) and
\* ConvFluxSwitch as it was on entry.
C3_PreStepSourceDisabled ==
  scheme = "Simpler" =>
    \A i \in Idx("res") :
      log[i].prog = "Simpler" =>
        /\ log[i].on = "U" /\ log[i].Uid = entry.Uid /\ log[i].ver = entry.ver
        /\ Idx("call") \cap 1..i = {}
        /\ ~log[i].S
        /\ log[i].C = entry.C

C3_Witness ==
  /\ scheme = "Simpler" /\ status = "returned" /\ nsteps = 2
  /\ \E i \in Idx("res") : log[i].prog = "Simpler" /\ log[i].ver > 0

\* C4: in every explicit scheme, a tensor written as a stage or final state
\* (U or Utemp) is passed to apply_limiter before it is next passed to
\* get_residual and before the take_time_step that wrote it returns.
C4_LimiterAfterUpdate ==
  \A i \in Idx("res") \cup Idx("ret") :
    log[i].prog \in ExplicitSchemes =>
      \A j \in 1..(i - 1) :
        ( /\ log[j].op = "upd" /\ log[j].on \in {"U", "Utemp"}
          /\ log[j].prog = log[i].prog /\ log[j].sub = log[i].sub
          /\ log[i].op = "res" => log[j].on = log[i].on )
        => \E k \in (j + 1)..(i - 1) :
             /\ log[k].op = "lim" /\ log[k].on = log[j].on
             /\ log[k].sub = log[i].sub

C4_Witness ==
  /\ scheme = "RK4" /\ status = "returned"
  /\ Cardinality({ k \in Idx("lim") : log[k].on = "Utemp" }) = 3
  /\ Cardinality({ k \in Idx("lim") : log[k].on = "U" }) = 1

\* C5: the array bound to physics.U is never replaced by another array and
\* never changes shape, and self.R keeps the shape of U.
C5_InPlace ==
  /\ [](selfR.shape = physU.shape)
  /\ [][/\ physU'.id = physU.id /\ physU'.shape = physU.shape
        /\ selfR'.shape = selfR.shape]_vars

C5_Witness ==
  /\ scheme = "Simpler" /\ explicit = "LSRK4" /\ status = "returned"
  /\ nsteps = 2 /\ physU.ver > entry.ver

\* C6: a NotPhysicalError raised by get_residual or apply_limiter ends the
\* take_time_step: it reaches the driver (no frame is left) and no call is
\* made and nothing is written after it.
C6_RaisePropagates ==
  /\ [](\A i \in Idx("raise") :
          i = Len(log) /\ status = "raised" /\ frames = << >>)
  /\ [][status = "raised" => UNCHANGED vars]_vars

C6_Witness ==
  /\ status = "raised" /\ scheme = "Strang" /\ explicit = "LSRK4"
  /\ log[Len(log)].op = "raise" /\ log[Len(log)].sub = 2

\* C7: set_split_schemes raises NotImplementedError for every implicit
\* solver name other than BDF1 and Trapezoidal and then leaves self.implicit
\* unassigned; for BDF1 and Trapezoidal it installs that solver and raises
\* nothing.
C7_UnsupportedImplicit ==
  scheme \in SplitSchemes /\ status # "setup" =>
    IF implicitArg \in {"BDF1", "Trapezoidal"}
      THEN implicit = implicitArg /\ setupRaised = "none"
      ELSE implicit = "unset" /\ setupRaised = "NotImplementedError"



(* ------------------------- Simpler: balance_const ---------------------- *)
\* C16: a Simpler step evaluates the residual once on the pre-step U, then
\* calls the implicit solver with dt, then the explicit scheme with dt/2;
\* self.balance_const is None during the first residual evaluation, the
\* negation of the constant computed from that residual during the implicit
\* step and that constant during the explicit half-step: always the one of
\* the same step, never one of an earlier step.
C16_SimplerBalance ==
  scheme = "Simpler" /\ status \in {"running", "returned", "raised"} =>
    LET want == << << "implicit", dt.self, 2 >>,
                   << "explicit", dt.self \div 2, 3 >> >>
        own == { i \in Idx("res") : log[i].sub = 0 }
    IN /\ IsPrefix(Calls, want)
       /\ status = "returned" => Calls = want
       /\ own \subseteq {1}
       /\ \A i \in own :
            /\ log[i].on = "U" /\ log[i].ver = entry.ver
            /\ log[i].Uid = entry.Uid
            /\ log[i].bc = NoBalanceConst
       /\ \A i \in Idx("call") :
            /\ own = {1} /\ i > 1
            /\ log[i].sub = 3 => ReturnedBefore(2, i)
       /\ \A i \in DOMAIN log :
            /\ log[i].sub = 2 =>
                 log[i].bc = [kind |-> "negated", step |-> nsteps, res |-> 1]
            /\ log[i].sub = 3 =>
                 log[i].bc = [kind |-> "const", step |-> nsteps, res |-> 1]

\* the second Simpler step has returned: its explicit half-step ran with a
\* constant while one of the first step was still stored on entry
C16_Witness ==
  /\ scheme = "Simpler" /\ status = "returned" /\ nsteps = 2
  /\ Len(Calls) = 2
  /\ entry.bc.kind = "const" /\ entry.bc.step = 1
  /\ \E i \in Idx("res") : log[i].sub = 3 /\ log[i].bc.step = 2

(* ------------------------ explicit schemes: stages --------------------- *)
\* positions in the log of the stage operations made by the explicit scheme
\* running as sub-step sub (0: the scheme is the stepper itself): predictor,
\* residual, inverse mass matrix, update of the state, limiter
RECURSIVE StageOpsUpTo(_, _)
StageOpsUpTo(sub, n) ==
  IF n = 0 THEN << >>
  ELSE IF /\ log[n].sub = sub
          /\ log[n].prog \in ExplicitSchemes
          /\ \/ log[n].op \in {"pred", "res", "mult", "lim"}
             \/ log[n].op = "upd" /\ log[n].on \in {"U", "Utemp"}
         THEN Append(StageOpsUpTo(sub, n - 1), n)
         ELSE StageOpsUpTo(sub, n - 1)
StageOps(sub) == StageOpsUpTo(sub, Len(log))

\* the operation expected at position k of the stage operations of prog
ExpectedOp(prog, k) ==
  IF prog = "ADER"
    THEN << "pred", "res", "mult", "upd", "lim" >>[k]
    ELSE << "res", "mult", "upd", "lim" >>[((k - 1) % 4) + 1]
ExpectedResiduals(prog) ==
  CASE prog = "FE" -> 1
    [] prog = "RK4" -> 4
    [] prog = "LSRK4" -> 5
    [] prog = "SSPRK3" -> 5
    [] prog = "ADER" -> 1
ExpectedLen(prog) ==
  IF prog = "ADER" THEN 5 ELSE 4 * ExpectedResiduals(prog)

\* C17: every stage of an explicit scheme is get_residual, then
\* mult_inv_mass_matrix on the residual of that stage, then the state
\* update, then the limiter; a step evaluates the residual once (FE), 4
\* times (RK4), 5 times (LSRK4, SSPRK3); ADER calls the predictor once and
\* then evaluates the residual once.
C17_StageOrder ==
  status \in {"running", "returned", "raised"} =>
    \A sub \in {0, 1, 3} :
      LET ops == StageOps(sub)
      IN ops # << >> =>
        LET prog == log[ops[1]].prog
        IN /\ Len(ops) <= ExpectedLen(prog)
           /\ \A k \in DOMAIN ops :
                /\ log[ops[k]].op = ExpectedOp(prog, k)
                /\ log[ops[k]].op = "mult" => log[ops[k]].R = ops[k - 1]
           /\ (\E i \in DOMAIN log : log[i].op = "ret" /\ log[i].sub = sub)
                => /\ Len(ops) = ExpectedLen(prog)
                   /\ Cardinality({ k \in DOMAIN ops :
                        log[ops[k]].op = "res" }) = ExpectedResiduals(prog)

\* a low-storage scheme has finished its five stages as the second explicit
\* half-step of a split scheme
C17_Witness ==
  /\ status = "returned" /\ scheme \in SplitSchemes
  /\ explicit \in {"LSRK4", "SSPRK3"}
  /\ Len(StageOps(3)) = 20
  /\ Len(StageOps(1)) \in {0, 20}


(* ----------------------- explicit schemes: solver.time ----------------- *)
\* the explicit scheme prog runs, or has run, as sub-step sub of this step
\* (0: the scheme is the stepper itself)
RunsAs(sub, prog) ==
  \E i \in DOMAIN log : log[i].sub = sub /\ log[i].prog = prog
\* positions in the log of the calls op made by the scheme running as sub
RECURSIVE PosUpTo(_, _, _)
PosUpTo(sub, op, n) ==
  IF n = 0 THEN << >>
  ELSE IF /\ log[n].sub = sub /\ log[n].op = op
          /\ log[n].prog \in ExplicitSchemes
         THEN Append(PosUpTo(sub, op, n - 1), n)
         ELSE PosUpTo(sub, op, n - 1)
Pos(sub, op) == PosUpTo(sub, op, Len(log))
\* solver.time and the version of physics.U when the scheme running as sub
\* was entered
EntryOf(sub) ==
  IF sub = 0 THEN [time |-> entry.time, ver |-> entry.ver]
  ELSE LET c == CHOOSE i \in Idx("call") : log[i].sub = sub
       IN [time |-> log[c].time, ver |-> log[c].ver]
\* the dt attribute of the stepper object running as sub
DtOf(sub) == IF sub = 0 THEN dt.self ELSE dt.explicit
ExplicitSubs == {0, 1, 3}

\* C24: RK4 entered with solver.time = t evaluates its four residuals at
\* t, t + dt/2, t + dt/2, t + dt and returns with solver.time = t + dt; FE
\* and ADER make every call and return with solver.time = t.
C24_RK4Times ==
  status \in {"running", "returned", "raised"} =>
    \A sub \in ExplicitSubs :
      LET t == EntryOf(sub).time
          h == DtOf(sub)
      IN /\ RunsAs(sub, "RK4") =>
              /\ \A k \in DOMAIN Pos(sub, "res") :
                   log[Pos(sub, "res")[k]].time =
                     << t, t + h \div 2, t + h \div 2, t + h >>[k]
              /\ \A k \in DOMAIN Pos(sub, "ret") :
                   log[Pos(sub, "ret")[k]].time = t + h
         /\ RunsAs(sub, "FE") \/ RunsAs(sub, "ADER") =>
              \A i \in DOMAIN log :
                log[i].sub = sub /\ log[i].prog \in {"FE", "ADER"} =>
                  log[i].time = t

\* RK4 has returned as the second explicit half-step of a Strang step whose
\* first half-step had already advanced solver.time
C24_Witness ==
  /\ scheme = "Strang" /\ explicit = "RK4" /\ status = "returned"
  /\ Len(Pos(3, "res")) = 4
  /\ EntryOf(3).time = entry.time + dt.explicit
  /\ time = entry.time + 2 * dt.explicit

\* the coefficients c of the stages of the scheme prog, in thousandths
StageTimes(prog) ==
  CASE prog = "RK4" -> << 0, 500, 500, 1000 >>
    [] prog = "LSRK4" -> rk4c
    [] prog = "SSPRK3" -> ssprk3c

\* C25: in RK4, LSRK4 and SSPRK3 entered with solver.time = t the first
\* residual is evaluated at t, the stage times do not decrease and lie in
\* [t, t + dt]; in LSRK4 and SSPRK3 the time of stage k is t + c[k]*dt for
\* the entry time t.
C25_StageTimes ==
  status \in {"running", "returned", "raised"} =>
    \A sub \in ExplicitSubs :
      \A prog \in {"RK4", "LSRK4", "SSPRK3"} :
        RunsAs(sub, prog) =>
          LET t == EntryOf(sub).time
              h == DtOf(sub)
              rs == Pos(sub, "res")
          IN /\ rs # << >> => log[rs[1]].time = t
             /\ \A k \in DOMAIN rs :
                  /\ t <= log[rs[k]].time /\ log[rs[k]].time <= t + h
                  /\ k > 1 => log[rs[k - 1]].time <= log[rs[k]].time
                  /\ prog # "RK4" =>
                       log[rs[k]].time = t + (StageTimes(prog)[k] * h) \div 1000

(* ---------------------- explicit schemes: physics.U -------------------- *)
\* C26: RK4 writes physics.U once, after its fourth residual evaluation:
\* until then, and when a residual evaluation or one of the first three
\* limiter calls raises, physics.U is the array and holds the values RK4 was
\* entered with.  LSRK4 and SSPRK3 write physics.U once in every stage.
C26_RK4WritesOnce ==
  status \in {"running", "returned", "raised"} =>
    \A sub \in ExplicitSubs :
      LET rs == Pos(sub, "res")
          ws == { i \in DOMAIN log :
                    /\ log[i].sub = sub /\ log[i].prog \in ExplicitSchemes
                    /\ log[i].op = "upd" /\ log[i].on = "U" }
          v0 == EntryOf(sub).ver
      IN /\ RunsAs(sub, "RK4") =>
              /\ Cardinality(ws) <= 1
              /\ \A i \in ws : Len(rs) = 4 /\ rs[4] < i
              /\ \A i \in DOMAIN log :
                   /\ log[i].sub = sub /\ log[i].prog = "RK4"
                   /\ \A w \in ws : i <= w
                   => log[i].ver = v0 /\ log[i].Uid = entry.Uid
              /\ (\E k \in DOMAIN Pos(sub, "ret") : TRUE) =>
                   Cardinality(ws) = 1
              /\ /\ status = "raised" /\ log[Len(log)].sub = sub
                 /\ \/ log[Len(log)].on = "res"
                    \/ Len(Pos(sub, "lim")) < 3
                 => physU.ver = v0 /\ physU.id = entry.Uid
         /\ RunsAs(sub, "LSRK4") \/ RunsAs(sub, "SSPRK3") =>
              /\ \A k \in DOMAIN rs :
                   Cardinality({ i \in ws : i < rs[k] }) = k - 1
              /\ Cardinality(ws) \in {Len(rs) - 1, Len(rs)}
              /\ (\E k \in DOMAIN Pos(sub, "ret") : TRUE) =>
                   Cardinality(ws) = nstages

\* the third limiter call of RK4 raises inside the second explicit half-step
\* of a Simpler step: physics.U holds what the implicit step left
C26_Witness ==
  /\ scheme = "Simpler" /\ explicit = "RK4" /\ status = "raised"
  /\ log[Len(log)].sub = 3 /\ log[Len(log)].on = "lim"
  /\ Len(Pos(3, "res")) = 3 /\ Len(Pos(3, "lim")) = 2
  /\ physU.ver = EntryOf(3).ver /\ physU.ver > entry.ver

(* --------------------- split schemes: solver.params -------------------- *)
\* C27: a Strang or Simpler step that returns leaves SourceSwitch = False
\* and ConvFluxSwitch = True whatever they were on entry; when a sub-step
\* raises the flags stay as set for that sub-step (inside the implicit
\* step: SourceSwitch = True, ConvFluxSwitch = False); no other key of
\* solver.params is written.
C27_FlagsLeft ==
  /\ [](scheme \in SplitSchemes =>
          /\ status = "returned" =>
               ~params.SourceSwitch /\ params.ConvFluxSwitch
          /\ status = "raised" =>
               LET sub == log[Len(log)].sub
               IN /\ sub = 2 => params.SourceSwitch /\ ~params.ConvFluxSwitch
                  /\ sub = 3 => ~params.SourceSwitch /\ params.ConvFluxSwitch
                  /\ sub \in {0, 1} =>
                       /\ ~params.SourceSwitch
                       /\ params.ConvFluxSwitch = entry.C)
  /\ [][params'.Other = params.Other]_vars

\* a step entered with the source on and the convective flux off returns
C27_Witness ==
  /\ scheme \in SplitSchemes /\ status = "returned"
  /\ entry.S /\ ~entry.C
  /\ ~params.SourceSwitch /\ params.ConvFluxSwitch

(* ------------------------------ slip walls ----------------------------- *)
IsSlipWallCall(kind) ==
  lastCall.fn = "slip wall" /\ lastCall.args.kind = kind
\* the momentum of U along the unit normal, and what is left of it
NormalMomentum(U) == rhoveln(U, lastCall.args.normals)
TangentialMomentum(U) ==
  VSub(U.rhou,
       VScale(NormalMomentum(U), n_hat([n |-> lastCall.args.normals])))

IsArrayCall == lastCall.fn = "arrays"
InputBufs == {lastCall.args.inputs[i].buf : i \in DOMAIN lastCall.args.inputs}
InputObjs == {lastCall.args.inputs[i].obj : i \in DOMAIN lastCall.args.inputs}

\* C29: compute_flux of LaxFriedrichs, Roe1D, Roe2D and HLLC,
\* get_boundary_state of every boundary condition and evaluate_state write
\* into no array they were passed, and the array they return is another
\* object than every argument (and shares no buffer with one).
C29_InputsUntouched ==
  IsArrayCall =>
    /\ lastCall.out.written \cap InputBufs = {}
    /\ lastCall.out.ret.obj \notin InputObjs \cup {0}
    /\ lastCall.out.ret.buf \notin InputBufs

\* reached: a Roe flux has rotated its copies in place, HLLC has written the
\* values it picked, a boundary condition has assigned slices of UqB, and
\* evaluate_state has skipped the interpolation; also with one array passed
\* as both states
C29_Witness ==
  /\ IsArrayCall
  /\ lastCall.args.f \in {"Roe2D", "HLLC", "AdiabaticWall"}
  /\ lastCall.args.inputs[2].obj = 1
  /\ Cardinality(lastCall.out.written) >= 1

(* -------------------- properties of SmoothIsentropicFlow --------------- *)
\* C21: get_state raises exactly when some characteristic foot x1 or x2 of
\* the element has an absolute value above 1, and returns the state when
\* all of them are in range.
C21_RaisesOutOfRange ==
  lastCall.fn = "SmoothIsentropicFlow.get_state" =>
    (lastCall.out.raised <=>
       \E i \in DOMAIN lastCall.args.x1 :
         \/ QLt(QInt(1), QAbs(lastCall.args.x1[i]))
         \/ QLt(QInt(1), QAbs(lastCall.args.x2[i])))

(* ------------------------ properties of quadrature --------------------- *)
IsQuadCall == lastCall.fn \in QuadFns

\* C22: the quadrature order returned for an element or a face is at least
\* 2*order + 1, with or without an equation set and with or without ADER,
\* and with gorder > 1 it is larger than with gorder = 1 and the same other
\* inputs.
C22_QuadOrderLargeEnough ==
  IsQuadCall =>
    /\ lastCall.out.QuadOrder >= 2 * lastCall.args.order + 1
    /\ quadEnv.gorder > 1 =>
         lastCall.out.QuadOrder >
           QuadCall(lastCall.fn, [quadEnv EXCEPT !.gorder = 1],
                    lastCall.args.order, lastCall.args.quadData).QuadOrder

\* C28: QuadChanged is False exactly when the quadData passed has the shape
\* of the entity and the order this call returns; so a second call with the
\* same inputs and the QuadData built from the order of the first returns
\* QuadChanged = False, also in 1D with ADER.
C28_QuadChangedExact ==
  IsQuadCall /\ ~lastCall.args.quadData.isNone =>
    (lastCall.out.QuadChanged = FALSE) <=>
      (lastCall.args.quadData =
         QuadData(quadEnv, QuadEntity(lastCall.fn), lastCall.out.QuadOrder))

(* ---------------------------- transport cache -------------------------- *)
\* the solution held for the non-native case: Cantera keeps it in
\* _cached_solution, Mutation++ in the state of internal_thermo
Held(tr) == IF tr.kind = "Cantera" THEN tr.cached_solution ELSE tr.internal

\* C13: get_solution of CanteraTransport and MutationppTransport, for a
\* thermo that is not the native one, recomputes the solution exactly when
\* thermo.T is not the array object stored as key (or no key is stored) and
\* then stores thermo.T as the key; when thermo.T is the stored object the
\* held solution is returned and nothing is recomputed. For the native
\* thermo the thermo's own solution is returned and the cache is neither
\* read nor written.
C13_IdentityKeyedCache ==
  lastGet.called =>
    LET b == lastGet.before
        a == lastGet.after
        miss == b.cached_T # lastGet.T.id
    IN IF lastGet.native
         THEN /\ lastGet.what \in {"thermo.solution", "thermo"}
              /\ a = b
              /\ lastGet.trace = << >>
         ELSE /\ (a.ncomp = b.ncomp + 1) <=> miss
              /\ a.ncomp \in {b.ncomp, b.ncomp + 1}
              /\ a.cached_T = lastGet.T.id
              /\ lastGet.ret = Held(a)
              /\ miss => /\ lastGet.ret.n = a.ncomp
                         /\ lastGet.ret.T = lastGet.T
              /\ ~miss => /\ a = b
                          /\ lastGet.ret = Held(b)
                          /\ lastGet.ret.n > 0

\* a call has found the key of an earlier recomputation replaced by another
\* array and recomputed, and a later call with the same array has returned
\* the held solution
C13_Witness ==
  /\ lastGet.called /\ ~lastGet.native
  /\ lastGet.before.cached_T = lastGet.T.id
  /\ lastGet.ret.n = 2
  /\ transport.ncomp = 2

(* ------------------------- transport.reinitialize ---------------------- *)
\* the configuration attributes of a transport object: Pr, mu0, s, T0, beta
\* and the mechanism self.gas / self.internal_thermo was built from
Config(tr) ==
  CASE tr.kind = "Constant" -> << tr.Pr, tr.mu0 >>
    [] tr.kind = "Sutherland" -> << tr.Pr, tr.mu0, tr.s, tr.T0, tr.beta >>
    [] OTHER -> << tr.gas >>
\* _cached_T and _cached_solution are None
CacheEmpty(tr) ==
  tr.kind \in TransportKinds =>
    tr.cached_T = NoArray.id /\ tr.cached_solution = NoSolution

\* C30: reinitialize() puts a ConstantTransport, SutherlandTransport,
\* CanteraTransport or MutationppTransport back in the state its
\* constructor left it in: every configuration attribute has the value
\* given at construction (only the constructor writes them, so the value
\* before the call), and the cache is empty.
C30_ReinitializeRestores ==
  [][Reinitialize =>
       Config(transport') = Config(transport) /\ CacheEmpty(transport')]_vars

(* ------------------------- properties of the fluxes -------------------- *)
IsRoeCall == lastCall.fn \in {"Roe1D", "Roe2D"}
\* position of op in the trace of the last call (0: not executed)
TracePos(op) ==
  IF \E i \in DOMAIN lastCall.out.trace : lastCall.out.trace[i] = op
    THEN CHOOSE i \in DOMAIN lastCall.out.trace : lastCall.out.trace[i] = op
    ELSE 0
Before(op1, op2) ==
  TracePos(op2) > 0 => TracePos(op1) > 0 /\ TracePos(op1) < TracePos(op2)

\* C8: Roe compute_flux raises NotPhysicalError and returns no flux when
\* the Roe-averaged c2 is <= 0 at some point of the batch, and when the
\* left or the right density is <= 0 at some point; c2 is checked before
\* its square root is taken and both densities before theirs.
C8_RoeNotPhysical ==
  IsRoeCall =>
    /\ ( \/ \E k \in DOMAIN lastCall.args : Le0(lastCall.args[k].rhoL)
         \/ \E k \in DOMAIN lastCall.args : Le0(lastCall.args[k].rhoR)
         \/ \E k \in DOMAIN lastCall.args : Le0(C2(lastCall.args[k])) )
       => lastCall.out.raised = "NotPhysicalError"
          /\ lastCall.out.flux = << >>
    /\ Before("check c2", "sqrt c2")
    /\ Before("check rhoL", "sqrt rho")
    /\ Before("check rhoR", "sqrt rho")

C8_Witness ==
  /\ lastCall.fn = "Roe2D" /\ Len(lastCall.args) = 2
  /\ lastCall.out.raised = "NotPhysicalError"
  /\ lastCall.out.msg = "Speed of sound is negative"
  /\ C2(lastCall.args[1]).v > 0 /\ C2(lastCall.args[2]).v = 0

\* C9: Roe compute_flux raises NotPhysicalError when the Roe-averaged c2
\* is NaN at some point of the batch, whatever c2 is at the other points.
C9_RoeNaN ==
  IsRoeCall =>
    ( (\E k \in DOMAIN lastCall.args : C2(lastCall.args[k]).nan)
      => lastCall.out.raised = "NotPhysicalError" )


(* ------------------- properties of the boundary conditions ------------- *)
IsBCCall == lastCall.fn \in BCKinds
\* the interior quantity q is negative at some point of the last call
NegativeAt(q) == \E k \in DOMAIN lastCall.args : lastCall.args[k][q].v < 0

\* C10 as stated: get_boundary_state of every Euler boundary condition
\* raises NotPhysicalError when the interior pressure, density or
\* temperature is negative at some boundary point.
C10_EveryBCRaises ==
  IsBCCall =>
    ( NegativeAt("p") \/ NegativeAt("rho") \/ NegativeAt("T")
      => lastCall.out.raised = "NotPhysicalError" )

\* C10 amended: PressureOutlet and IsothermalWall method 0 raise when the
\* interior pressure is negative at some point, AdiabaticWall when a
\* density or the temperature is, IsothermalWall methods 1 and 2 and
\* IsothermalWallRiemann when a density is; SlipWall and SlipWallRiemann
\* check nothing and return a boundary state for every interior state.
C10_CheckedQuantities ==
  IsBCCall =>
    LET raises == lastCall.out.raised = "NotPhysicalError"
    IN /\ lastCall.fn \in {"PressureOutlet", "IsothermalWall0"}
            => (NegativeAt("p") => raises)
       /\ lastCall.fn = "AdiabaticWall"
            => (NegativeAt("rho") \/ NegativeAt("T") => raises)
       /\ lastCall.fn \in {"IsothermalWall1", "IsothermalWall2",
                           "IsothermalWallRiemann"}
            => (NegativeAt("rho") => raises)
       /\ lastCall.fn \in {"SlipWall", "SlipWallRiemann"}
            => ~raises /\ lastCall.out.state = "UqB"

C10_Witness ==
  /\ lastCall.fn = "AdiabaticWall" /\ Len(lastCall.args) = 2
  /\ lastCall.out.raised = "NotPhysicalError"
  /\ ~NegativeAt("rho") /\ ~NegativeAt("p")
  /\ lastCall.args[1].T.v = 5 /\ lastCall.args[2].T.v < 0

(* --------------------- consistency and conservation -------------------- *)
IsNumFluxCall == lastCall.fn \in {"LaxFriedrichs", "Roe", "HLLC"}
\* compute_flux of the flux function fn at one point
NumFlux(fn, pt) ==
  CASE fn = "LaxFriedrichs" -> LaxFriedrichs(<< pt >>)[1]
    [] fn = "Roe" -> Roe(<< pt >>)[1]
    [] fn = "HLLC" -> HLLC(<< pt >>)[1]
\* the same face seen from the other side
Swapped(pt) ==
  [L |-> pt.R, R |-> pt.L, n |-> [i \in DOMAIN pt.n |-> -pt.n[i]]]
Zero(U) == UScale(QInt(0), U)

\* C11: with left == right == U every numerical flux (LaxFriedrichs, Roe1D,
\* Roe2D, HLLC) returns the analytic flux of U projected on n, |n| times
\* the flux on the unit normal: the dissipation or star-state correction is
\* zero.
C11_Consistency ==
  IsNumFluxCall =>
    \A k \in DOMAIN lastCall.args :
      LET pt == lastCall.args[k]
      IN pt.L = pt.R =>
           lastCall.out[k] =
             UScale(n_mag(pt), get_conv_flux_projected(UqL(pt), n_hat(pt)))

\* equal states in the fan of HLLC moving to the left, and equal states of a
\* 2D Roe flux with a tangential velocity
C11_Witness ==
  /\ IsNumFluxCall
  /\ LET pt == lastCall.args[1]
     IN /\ pt.L = pt.R
        /\ \/ /\ lastCall.fn = "HLLC"
              /\ pt.L.u = << -1 >> /\ pt.L.c = 2 /\ pt.n = << -2 >>
           \/ /\ lastCall.fn = "Roe"
              /\ pt.L.u = << -3, 2 >> /\ pt.n = << -3, -4 >>

\* C12: flux(L, R, n) = -flux(R, L, -n) for every flux function and all
\* states and normals, also where the branch selection of HLLC (SL = 0,
\* SR = 0, S* = 0) or the maximum of LaxFriedrichs (aL = aR) is tied.
C12_Conservation ==
  IsNumFluxCall =>
    \A k \in DOMAIN lastCall.args :
      LET pt == lastCall.args[k]
      IN UAdd(lastCall.out[k], NumFlux(lastCall.fn, Swapped(pt)))
           = Zero(lastCall.out[k])

\* different states with the contact wave of HLLC at rest (S* = 0)
C12_Witness ==
  /\ lastCall.fn = "HLLC"
  /\ LET pt == lastCall.args[1]
         L == LeftSide(pt)
         R == RightSide(pt)
         S == get_wave_speeds(L, R)
     IN /\ pt.L # pt.R
        /\ QLt(S.SL, QInt(0)) /\ QLt(QInt(0), S.SR)
        /\ ShearSpeed(L, R, S.SL, S.SR) = QInt(0)
        /\ lastCall.out[1].rhou[1] # QInt(0)

(* ----------------------------- interior flux --------------------------- *)
IsInteriorCall == lastCall.fn = "get_conv_flux_interior"

\* C14: for a calorically perfect gas in 1D and 2D get_conv_flux_interior
\* returns in direction d the density flux rho*u_d, the momentum flux
\* rho*u_i*u_d + p*delta_id and the energy flux (rhoE + p)*u_d, and the
\* values |u|^2, rho and p of the input state; at zero velocity the momentum
\* flux is the pressure on the diagonal and the density and energy fluxes
\* are zero.
C14_InteriorFlux ==
  IsInteriorCall =>
    LET pr == lastCall.args
        out == lastCall.out
        dims == DOMAIN pr.u
    IN /\ out.F = Fref(pr)
       /\ out.u2 = Dot(QVec(pr.u), QVec(pr.u))
       /\ out.rho = QInt(pr.rho)
       /\ out.p = QInt(pr.P)
       /\ (\A i \in dims : pr.u[i] = 0) =>
            \A d \in dims :
              /\ out.F[d].rho = QInt(0)
              /\ out.F[d].rhoE = QInt(0)
              /\ \A i \in dims :
                   out.F[d].rhou[i] = IF i = d THEN QInt(pr.P) ELSE QInt(0)

\* a 2D state with both velocity components different from zero
C14_Witness ==
  /\ IsInteriorCall
  /\ lastCall.args.u = << 2, -1 >>
  /\ lastCall.out.F[2].rhou[1] = QInt(-2 * lastCall.args.rho)

(* ----------------------------- Lax-Friedrichs -------------------------- *)
IsFluxCall(fn) == lastCall.fn = fn
\* magnitude of the velocity component normal to the face
NormalSpeed(U, pt) == QAbs(Dot(Velocity(U), n_hat(pt)))
\* 0.5*|n|*(F(L) + F(R) - alpha*(U_R - U_L))
LFWith(alpha, pt) ==
  UScale(QHalf(n_mag(pt)),
         USub(UAdd(FqL(pt), FqR(pt)), UScale(alpha, USub(UqR(pt), UqL(pt)))))

\* C19: LaxFriedrichs.compute_flux returns
\* 0.5*|n|*(F(L) + F(R) - alpha*(U_R - U_L)) with alpha the maximum over the
\* two sides of the speed of sound plus the magnitude of the velocity
\* component normal to the face.
C19_LFNormalSpeed ==
  IsFluxCall("LaxFriedrichs") =>
    \A k \in DOMAIN lastCall.args :
      LET pt == lastCall.args[k]
          alpha == QMax(QAdd(QInt(pt.L.c), NormalSpeed(UqL(pt), pt)),
                        QAdd(QInt(pt.R.c), NormalSpeed(UqR(pt), pt)))
      IN lastCall.out[k] = LFWith(alpha, pt)

\* C19 (amended): alpha is the maximum over the two sides of the speed of
\* sound plus the magnitude of the whole velocity vector.
C19_LFVelocityMagnitude ==
  IsFluxCall("LaxFriedrichs") =>
    \A k \in DOMAIN lastCall.args :
      LET pt == lastCall.args[k]
          alpha == QMax(QAdd(QInt(pt.L.c), Norm(QVec(pt.L.u))),
                        QAdd(QInt(pt.R.c), Norm(QVec(pt.R.u))))
      IN lastCall.out[k] = LFWith(alpha, pt)

\* a 2D face whose faster side has a velocity with a tangential component,
\* and states that differ
C19_Witness ==
  /\ IsFluxCall("LaxFriedrichs")
  /\ \E k \in DOMAIN lastCall.args :
       LET pt == lastCall.args[k]
       IN /\ pt.n = << 1, 0 >> /\ pt.L.u = << 3, 4 >> /\ pt.R.u = << 0, 0 >>
          /\ pt.L.c = 2 /\ pt.R.c = 1 /\ pt.L.rho # pt.R.rho

(* --------------------------------- HLLC -------------------------------- *)
\* the flux of the branch a single point belongs to: the one-sided flux of
\* side k, or the star-state flux of side k
OneSided(K) == K.Fq
StarFlux(K, Sk, Sstar, n) ==
  UAdd(K.Fq, StarCorrection(K, Sk, QMul(K.rho, QSub(Sk, K.u)), Sstar, n))
Count(conds) == Cardinality({ i \in DOMAIN conds : conds[i] })

C20_OutletPointwise ==
  lastCall.fn = "PressureOutlet" /\ lastCall.out.raised = "none" =>
    \A k \in DOMAIN lastCall.args :
      lastCall.out.pts[k] =
        IF Supersonic(lastCall.args[k]) THEN "interior" ELSE "prescribed"

====
